---- MODULE Spec2Model ----
(***************************************************************************)
(* Hub side of the registration control plane: the ManagedCluster          *)
(* acceptance and deletion controllers, the taint controller behind the    *)
(* mutating admission hook, and the CSR approving controller.              *)
(*                                                                         *)
(* Every controller sync is modelled in two steps: the lister Get that     *)
(* hands the sync its copy of the object, and the rest of the handler,     *)
(* which acts on that copy while its API calls hit the live store.  The    *)
(* copy may therefore be stale by the time the writes land.                *)
(***************************************************************************)
EXTENDS Integers, Sequences, FiniteSets, TLC

(***************************************************************************)
(* Part 1.  ManagedCluster acceptance and deletion                         *)
(***************************************************************************)

VARIABLES
    cluster,     \* the ManagedCluster object in the store
    monitored,   \* resources of the pre-delete monitored type in the cluster namespace
    addons,      \* ManagedClusterAddOns in the cluster namespace
    works,       \* ManifestWorks in the cluster namespace
    ns,          \* the namespace named after the cluster
    rbac,        \* the per-cluster ClusterRole, ClusterRoleBinding and RoleBindings exist
    accSeen,     \* the copy the ManagedClusterController sync got from the lister
    delSeen,     \* the copy the ManagedClusterDeletionController sync got from the lister
    cstep        \* what the last step of this part was and what it did

clusterVars == <<cluster, monitored, addons, works, ns, rbac, accSeen, delSeen, cstep>>

\* Taints and their admission
VARIABLES
    tcluster,   \* the stored ManagedCluster: lifecycle, condition Available, spec.taints
    now,        \* the admission server's clock, in ticks
    stamps,     \* the times the admission server has written into a patch
    tSeen,      \* the taint controller's position: its lister has returned a copy or not
    tstep       \* the last step: operation and outcome

taintVars == <<tcluster, now, stamps, tSeen, tstep>>

\* Certificate signing requests and their approver
VARIABLES
    hubAccepted,  \* per cluster name: the cluster is accepted and its RBAC resources exist
    csr,          \* the stored CertificateSigningRequest
    csrSeen,      \* the copy the approver's lister returned
    sstep         \* the last step: operation and outcome

csrVars == <<hubAccepted, csr, csrSeen, sstep>>

\* Admission requests for a ManagedCluster, one at a time
VARIABLES
    admission,   \* the request before the mutating hook and the hook's response
    validation   \* the request before the validating hook, the reviews and the response

hookVars == <<admission, validation>>

\* The addon lease controller of the agent
VARIABLES
    addOn,       \* the ManagedClusterAddOn on the hub
    lease,       \* the lease of the addon in its installation namespace
    hubLease,    \* the lease of the addon in the cluster namespace on the hub
    leaseClock,  \* the clock of the controller, in seconds
    addOnSeen,   \* the copy of the addon the lister returned to the sync
    lstep        \* the last step: operation and outcome

leaseVars == <<addOn, lease, hubLease, leaseClock, addOnSeen, lstep>>

\* The addon management controller of the agent and its two managers
VARIABLES
    hubAddOn,                  \* the ManagedClusterAddOn on the hub, as the managers read it
    addOnRegistrationConfigs,  \* the registration manager's map entry of the addon, by config hash
    leakedRotators,            \* rotators that run although no map entry holds their stop function
    secrets,                   \* the rotator secrets that exist, by plane and config hash
    addOnLeaseConfigs,         \* the lease manager's map entry of the addon
    leakedLeaseControllers,    \* lease controllers that run although no map entry holds their stop function
    mgmtSeen,                  \* the copy of the addon the lister returned to the sync
    regFailed,                 \* whether a call of the registration manager has returned an error
    rstep                      \* the last step: operation and outcome

regVars == <<hubAddOn, addOnRegistrationConfigs, leakedRotators, secrets, addOnLeaseConfigs,
             leakedLeaseControllers, mgmtSeen, regFailed, rstep>>

\* The addon namespace controller of the agent
VARIABLES
    nsController,  \* the controller object, as it was constructed
    addOnStore,    \* the ManagedClusterAddOns the lister holds, by name
    namespaces,    \* the namespaces of the managed cluster, by name
    nstep          \* the last step: operation and outcome

nsVars == <<nsController, addOnStore, namespaces, nstep>>

agentVars == <<leaseVars, regVars, nsVars>>

\* The addon feature discovery controller of the hub
VARIABLES
    featCluster,  \* the ManagedCluster in the store
    featCache,    \* the ManagedCluster object the shared informer cache holds
    featAddOns,   \* the ManagedClusterAddOns of the cluster namespace, by name
    fstep         \* the last step: operation and outcome

featVars == <<featCluster, featCache, featAddOns, fstep>>

\* The agent of the cluster, as the hub sees it
VARIABLES
    spoke  \* its lease on the hub, whether it renews the lease, the condition Joined

spokeVars == <<spoke>>

vars == <<clusterVars, taintVars, csrVars, hookVars, agentVars, featVars, spokeVars>>

\* A specification leaves the other parts of the hub as they are
NoClusterPart ==
    /\ cluster = [exists |-> FALSE] /\ monitored = <<>> /\ addons = <<>> /\ works = <<>>
    /\ ns = <<>> /\ rbac = FALSE /\ accSeen = [got |-> FALSE] /\ delSeen = [got |-> FALSE]
    /\ cstep = [op |-> "init"]

NoTaintPart ==
    /\ tcluster = [life |-> "gone"] /\ now = 0 /\ stamps = {}
    /\ tSeen = [got |-> FALSE] /\ tstep = [op |-> "init"]

NoCSRPart ==
    /\ hubAccepted = <<>> /\ csr = [exists |-> FALSE]
    /\ csrSeen = [got |-> FALSE] /\ sstep = [op |-> "init"]

NoLeasePart ==
    /\ addOn = "none" /\ lease = "none" /\ hubLease = "none"
    /\ leaseClock = 0 /\ addOnSeen = "none" /\ lstep = "none"

NoRegPart ==
    /\ hubAddOn = "none" /\ addOnRegistrationConfigs = "none" /\ leakedRotators = 0
    /\ secrets = {} /\ addOnLeaseConfigs = "none" /\ leakedLeaseControllers = 0
    /\ mgmtSeen = "none" /\ regFailed = FALSE /\ rstep = "none"

NoNSPart ==
    /\ nsController = "none" /\ addOnStore = <<>> /\ namespaces = <<>> /\ nstep = "none"

NoAgentPart == NoLeasePart /\ NoRegPart /\ NoNSPart

NoFeaturePart ==
    /\ featCluster = "none" /\ featCache = "none" /\ featAddOns = <<>> /\ fstep = "none"

NoSpokePart == spoke = "none"

NoMutatingHook == admission = [phase |-> "none"]
NoValidatingHook == validation = [phase |-> "none"]
NoHookPart == NoMutatingHook /\ NoValidatingHook

managedClusterFinalizer == "cluster.open-cluster-management.io/api-resource-cleanup"
OtherFinalizer == "example.io/other-finalizer"
DeletionByOtherLabelKey == "cluster.open-cluster-management.io/delete-by-other"
ConditionTypeDeleteSuccess == "ContentDeleteSuccess"
ResourceRemainReason == "ResourceRemaining"
FinalizerRemainReason == "FinalizerRemaining"
\* estimate = 3 * time.Second, the requeue delay of the deletion controller
estimate == 3

\* The ManifestWorks of the model: "w" is an ordinary work, "wl" carries the
\* delete-by-other label.
WorkIds == {"w", "wl"}
OneId == {"x"}

NotFound == [exists |-> FALSE]

\* A resource is absent, plain (no finalizer, not being deleted) or terminating
\* (deleted with foreground propagation, so it carries a finalizer).
ItemStates == {"absent", "plain", "terminating"}

NoStep == [op |-> "init", err |-> FALSE, delAddons |-> FALSE, delWorks |-> "none",
           delNS |-> FALSE, rbacRemoval |-> "none", applied |-> "none",
           finPatch |-> "none", cond |-> "none", requeue |-> 0]

----------------------------------------------------------------------------
(* The store's rules for the ManagedCluster object *)

HasFinalizer(c) == managedClusterFinalizer \in c.finalizers

\* A metadata.finalizers merge patch replaces the list.  The API server refuses a
\* new finalizer on an object that is being deleted, and removes the object when
\* the last finalizer of a deleting object goes.
PatchRejected(c, fins) == ~c.exists \/ (c.deleting /\ ~(fins \subseteq c.finalizers))

ApplyFinalizers(c, fins) ==
    IF c.deleting /\ fins = {} THEN NotFound ELSE [c EXCEPT !.finalizers = fins]

----------------------------------------------------------------------------
(* Listing and deleting through the metadata client *)

\* metadataClient.Resource(gvr).Namespace(ns).List(listOpts): sel is "all" or
\* "!delete-by-other"
ListItems(items, sel) ==
    {i \in DOMAIN items : items[i].st /= "absent" /\ (sel = "all" \/ ~items[i].byOther)}

NoRemaining == [num |-> 0, fins |-> 0]

monitorGVR(items, sel) ==
    LET listed == ListItems(items, sel) IN
    IF listed = {} THEN NoRemaining
    ELSE [num |-> Cardinality(listed),
          fins |-> Cardinality({i \in listed : items[i].st = "terminating"})]

DeleteCollection(items, sel) ==
    [i \in DOMAIN items |->
        IF i \in ListItems(items, sel) THEN [items[i] EXCEPT !.st = "terminating"]
        ELSE items[i]]

\* A cleanupGVR that lists and never deletes
cleanupGVRListOnly(items, sel, failList, failDelete) ==
    [remaining |-> IF failList THEN NoRemaining ELSE monitorGVR(items, sel),
     err |-> failList, items |-> items, deleted |-> FALSE]

\* cleanupGVR: list, and delete the listed collection when it is not empty.
\* failList / failDelete say whether that call returns an error.
cleanupGVR(items, sel, failList, failDelete) ==
    LET remaining == monitorGVR(items, sel) IN
    IF failList THEN [remaining |-> NoRemaining, err |-> TRUE, items |-> items, deleted |-> FALSE]
    ELSE IF remaining.num = 0
         THEN [remaining |-> remaining, err |-> FALSE, items |-> items, deleted |-> FALSE]
    ELSE IF failDelete
         THEN [remaining |-> remaining, err |-> TRUE, items |-> items, deleted |-> FALSE]
    ELSE [remaining |-> remaining, err |-> FALSE, items |-> DeleteCollection(items, sel),
          deleted |-> TRUE]

\* A deletion of ManifestWorks without a label selector
AnyWork == "all"

\* The label selector the deletion controller gives for ManifestWorks
WorkSelector == "!delete-by-other"

\* A deletion of the namespace without a label selector
AnyNamespace == "all"

\* The label selector the deletion controller gives for the namespace
NamespaceSelector == "!delete-by-other"

\* The calls of one cleanup that may return an error
CleanupFailures == {"none", "listMonitored", "listAddons", "deleteAddons", "listWorks",
                    "deleteWorks", "relistWorks", "listNS", "deleteNS", "rbac"}

\* removeManagedClusterResources: CleanUpManagedClusterManifests over staticFiles
\* (the namespace is not among them)
removeManagedClusterResources(fail) ==
    IF fail THEN [err |-> TRUE, rbac |-> rbac] ELSE [err |-> FALSE, rbac |-> FALSE]

CleanupResult(remaining, err, a, w, n, r, dA, dW, dN, rr) ==
    [remaining |-> remaining, err |-> err, addons |-> a, works |-> w, ns |-> n, rbac |-> r,
     delAddons |-> dA, delWorks |-> dW, delNS |-> dN, rbacRemoval |-> rr]

\* A deletion controller whose pre-delete monitoring finds nothing
preDeleteNothing == NoRemaining

\* The loop over preDeleteMonitorResources: what remains of the monitored type
preDeleteRemaining == monitorGVR(monitored, "all")

\* managedClusterDeletionController.cleanup, with the call named by f failing
cleanup(f) ==
    LET mon == preDeleteRemaining IN
    IF f = "listMonitored"
    THEN CleanupResult(NoRemaining, TRUE, addons, works, ns, rbac, FALSE, "none", FALSE, "none")
    ELSE IF mon.num > 0
    THEN CleanupResult(mon, FALSE, addons, works, ns, rbac, FALSE, "none", FALSE, "none")
    ELSE
    LET remainingAddon == cleanupGVR(addons, "all", f = "listAddons", f = "deleteAddons") IN
    IF remainingAddon.err \/ remainingAddon.remaining.num > 0
    THEN CleanupResult(remainingAddon.remaining, remainingAddon.err, remainingAddon.items,
                       works, ns, rbac, remainingAddon.deleted, "none", FALSE, "none")
    ELSE
    LET remainingWorks == cleanupGVR(works, WorkSelector, f = "listWorks", f = "deleteWorks")
        dW == IF remainingWorks.deleted THEN WorkSelector ELSE "none" IN
    IF remainingWorks.err \/ remainingWorks.remaining.num > 0
    THEN \* the code returns remainingAddon here, not remainingWorks
         CleanupResult(remainingAddon.remaining, remainingWorks.err, addons,
                       remainingWorks.items, ns, rbac, FALSE, dW, FALSE, "none")
    ELSE
    LET relist == monitorGVR(works, "all") IN
    IF f = "relistWorks" \/ relist.num > 0
    THEN \* and here again
         CleanupResult(remainingAddon.remaining, f = "relistWorks", addons, works, ns, rbac,
                       FALSE, dW, FALSE, "none")
    ELSE
    LET remainingNS == cleanupGVR(ns, NamespaceSelector, f = "listNS", f = "deleteNS") IN
    IF remainingNS.err \/ remainingNS.remaining.num > 0
    THEN CleanupResult(remainingNS.remaining, remainingNS.err, addons, works,
                       remainingNS.items, rbac, FALSE, dW, remainingNS.deleted, "none")
    ELSE
    LET removed == removeManagedClusterResources(f = "rbac") IN
    CleanupResult(NoRemaining, removed.err, addons, works, ns, removed.rbac, FALSE, dW, FALSE,
                  IF removed.err THEN "err" ELSE "ok")

----------------------------------------------------------------------------
(* Status updates *)

\* helpers.UpdateManagedClusterStatus with UpdateManagedClusterConditionFn: reads the
\* live object by name, sets the condition and writes the status (retrying on
\* conflict), or returns an error and writes nothing.
UpdateManagedClusterStatus(c, field, value, fail) ==
    IF ~c.exists \/ fail THEN [err |-> TRUE, cluster |-> c]
    ELSE [err |-> FALSE, cluster |-> [c EXCEPT ![field] = value]]

\* managedClusterDeletionController.patchFinalizer against the live object
patchFinalizer(fins, fail) ==
    IF fail \/ PatchRejected(cluster, fins) THEN [err |-> TRUE, cluster |-> cluster]
    ELSE [err |-> FALSE, cluster |-> ApplyFinalizers(cluster, fins)]

Idle == [got |-> FALSE]
Got(obj) == [got |-> TRUE, obj |-> obj]

\* What the deletion controller reads of its copy of the cluster
DeletionCopy(c) ==
    IF ~c.exists THEN NotFound
    ELSE [exists |-> TRUE, deleting |-> c.deleting, finalizers |-> c.finalizers]

\* What the acceptance controller reads of its copy of the cluster
AcceptanceCopy(c) ==
    IF ~c.exists THEN NotFound
    ELSE [exists |-> TRUE, deleting |-> c.deleting, finalizers |-> c.finalizers,
          hubAcceptsClient |-> c.hubAcceptsClient, accepted |-> c.accepted.status]

Step(op) == [NoStep EXCEPT !.op = op]

\* The log after a step of the environment
Env == Step("env")

----------------------------------------------------------------------------
(* ManagedClusterDeletionController *)

DeletionGet ==
    /\ UNCHANGED <<taintVars, csrVars, hookVars, agentVars, featVars, spokeVars>>
    /\ ~delSeen.got
    /\ delSeen' = Got(DeletionCopy(cluster))
    /\ cstep' = Step("DeletionGet")
    /\ UNCHANGED <<cluster, monitored, addons, works, ns, rbac, accSeen>>

DeletionFailures == CleanupFailures \cup {"status", "patch"}

\* The condition the deletion controller reports for what cleanup found remaining
RemainingReason(remaining) ==
    IF remaining.fins > 0 THEN FinalizerRemainReason
    ELSE IF remaining.num > 0 THEN ResourceRemainReason
    ELSE "none"

\* removeManagedClusterFinalizer: the finalizers of the copy without the cleanup one
copiedFinalizers(mc) == mc.finalizers \ {managedClusterFinalizer}

\* managedClusterDeletionController.sync after the lister Get; f names the API call
\* that fails in this sync, if any
DeletionSync(f) ==
    /\ UNCHANGED <<taintVars, csrVars, hookVars, agentVars, featVars, spokeVars>>
    /\ delSeen.got
    /\ delSeen' = Idle
    /\ UNCHANGED accSeen
    /\ LET mc == delSeen.obj IN
       IF ~mc.exists \/ (~mc.deleting /\ HasFinalizer(mc))
       THEN /\ cstep' = Step("DeletionSync")
            /\ UNCHANGED <<cluster, monitored, addons, works, ns, rbac>>
       ELSE IF ~mc.deleting
       THEN LET p == patchFinalizer(mc.finalizers \cup {managedClusterFinalizer}, f = "patch") IN
            /\ cluster' = p.cluster
            /\ cstep' = [Step("DeletionSync") EXCEPT !.err = p.err,
                            !.finPatch = "add"]
            /\ UNCHANGED <<monitored, addons, works, ns, rbac>>
       ELSE LET r == cleanup(f)
                reason == RemainingReason(r.remaining)
                log == [Step("DeletionSync") EXCEPT !.delAddons = r.delAddons,
                           !.delWorks = r.delWorks, !.delNS = r.delNS,
                           !.rbacRemoval = r.rbacRemoval] IN
            /\ addons' = r.addons
            /\ works' = r.works
            /\ ns' = r.ns
            /\ rbac' = r.rbac
            /\ UNCHANGED monitored
            /\ IF r.err
               THEN /\ cstep' = [log EXCEPT !.err = TRUE]
                    /\ UNCHANGED cluster
               ELSE IF reason /= "none"
               THEN LET up == UpdateManagedClusterStatus(cluster, "deleteSuccess", reason,
                                                         f = "status") IN
                    /\ cluster' = up.cluster
                    /\ cstep' = [log EXCEPT !.err = up.err,
                                    !.cond = IF up.err THEN "none" ELSE reason,
                                    !.requeue = IF up.err THEN 0 ELSE estimate]
               ELSE IF copiedFinalizers(mc) /= mc.finalizers
               THEN LET p == patchFinalizer(copiedFinalizers(mc), f = "patch") IN
                    /\ cluster' = p.cluster
                    /\ cstep' = [log EXCEPT !.err = p.err,
                                    !.finPatch = "remove"]
               ELSE /\ cstep' = log
                    /\ UNCHANGED cluster

----------------------------------------------------------------------------
(* ManagedClusterController (acceptance) *)

AcceptanceGet ==
    /\ UNCHANGED <<taintVars, csrVars, hookVars, agentVars, featVars, spokeVars>>
    /\ ~accSeen.got
    /\ accSeen' = Got(AcceptanceCopy(cluster))
    /\ cstep' = Step("AcceptanceGet")
    /\ UNCHANGED <<cluster, monitored, addons, works, ns, rbac, delSeen>>

AcceptanceFailures == {"none", "remove", "apply", "status"}

\* resourceapply.ApplyDirectly over the namespace manifest and staticFiles: every file
\* is tried; with fail the RBAC files return errors
ApplyDirectly(fail) ==
    [err |-> fail,
     ns |-> [i \in DOMAIN ns |-> IF ns[i].st = "absent"
                                  THEN [st |-> "plain", byOther |-> FALSE] ELSE ns[i]],
     rbac |-> IF fail THEN rbac ELSE TRUE]

\* An acceptance controller that gives one reason whatever the apply returned
AcceptedReasonAlways(applyErr) == "HubClusterAdminAccepted"

\* The reason of acceptedCondition: Error when a file could not be applied
AcceptedReason(applyErr) == IF applyErr THEN "Error" ELSE "HubClusterAdminAccepted"

AcceptedTrue(reason) == [status |-> "True", reason |-> reason]
AcceptedFalse == [status |-> "False", reason |-> "HubClusterAdminDenied"]
NoCondition == [status |-> "none", reason |-> ""]

\* An acceptance controller that does not look at the finalizers
AcceptanceSkipsIgnoringFinalizer(mc) ==
    \/ ~mc.exists
    \/ mc.deleting
    \/ ~mc.hubAcceptsClient /\ mc.accepted /= "True"

\* An acceptance controller that treats every cluster that is not accepted as denied
AcceptanceSkipsOnlyUnready(mc) ==
    \/ ~mc.exists
    \/ ~mc.deleting /\ ~HasFinalizer(mc)
    \/ mc.deleting

\* The cases in which managedClusterController.sync returns without doing anything:
\* no cluster, no cleanup finalizer yet, deleting, or not accepted and never was
AcceptanceSkips(mc) ==
    \/ ~mc.exists
    \/ ~mc.deleting /\ ~HasFinalizer(mc)
    \/ mc.deleting
    \/ ~mc.hubAcceptsClient /\ mc.accepted /= "True"

\* managedClusterController.sync after the lister Get
AcceptanceSync(f) ==
    /\ UNCHANGED <<taintVars, csrVars, hookVars, agentVars, featVars, spokeVars>>
    /\ accSeen.got
    /\ accSeen' = Idle
    /\ UNCHANGED <<delSeen, monitored, addons, works>>
    /\ LET mc == accSeen.obj IN
       IF AcceptanceSkips(mc)
       THEN /\ cstep' = Step("AcceptanceSync")
            /\ UNCHANGED <<cluster, ns, rbac>>
       ELSE IF ~mc.hubAcceptsClient
       THEN LET removed == removeManagedClusterResources(f = "remove")
                up == UpdateManagedClusterStatus(cluster, "accepted", AcceptedFalse,
                                                 f = "status") IN
            /\ rbac' = removed.rbac
            /\ UNCHANGED ns
            /\ IF removed.err
               THEN /\ cstep' = [Step("AcceptanceSync") EXCEPT !.err = TRUE,
                                    !.rbacRemoval = "err"]
                    /\ UNCHANGED cluster
               ELSE /\ cluster' = up.cluster
                    /\ cstep' = [Step("AcceptanceSync") EXCEPT !.err = up.err,
                                    !.rbacRemoval = "ok",
                                    !.cond = IF up.err THEN "none" ELSE "False"]
       ELSE LET applied == ApplyDirectly(f = "apply")
                acceptedCondition == AcceptedTrue(AcceptedReason(applied.err))
                up == UpdateManagedClusterStatus(cluster, "accepted", acceptedCondition,
                                                 f = "status") IN
            /\ ns' = applied.ns
            /\ rbac' = applied.rbac
            /\ cluster' = up.cluster
            /\ cstep' = [Step("AcceptanceSync") EXCEPT !.err = applied.err \/ up.err,
                            !.applied = IF applied.err THEN "err" ELSE "ok",
                            !.cond = IF up.err THEN "none" ELSE "True"]

----------------------------------------------------------------------------
(* The other writers of the store *)

\* The hub admin flips spec.hubAcceptsClient
AdminSetHubAccepts ==
    /\ UNCHANGED <<taintVars, csrVars, hookVars, agentVars, featVars, spokeVars>>
    /\ cluster.exists
    /\ cluster' = [cluster EXCEPT !.hubAcceptsClient = ~cluster.hubAcceptsClient]
    /\ cstep' = Env
    /\ UNCHANGED <<monitored, addons, works, ns, rbac, accSeen, delSeen>>

\* A client deletes the ManagedCluster
DeleteCluster ==
    /\ UNCHANGED <<taintVars, csrVars, hookVars, agentVars, featVars, spokeVars>>
    /\ cluster.exists /\ ~cluster.deleting
    /\ cluster' = IF cluster.finalizers = {} THEN NotFound
                  ELSE [cluster EXCEPT !.deleting = TRUE]
    /\ cstep' = Env
    /\ UNCHANGED <<monitored, addons, works, ns, rbac, accSeen, delSeen>>

\* Another controller adds its own finalizer to the cluster, or removes it
OtherFinalizerWrite ==
    /\ UNCHANGED <<taintVars, csrVars, hookVars, agentVars, featVars, spokeVars>>
    /\ cluster.exists
    /\ \/ /\ ~cluster.deleting /\ OtherFinalizer \notin cluster.finalizers
          /\ cluster' = [cluster EXCEPT !.finalizers = @ \cup {OtherFinalizer}]
       \/ /\ OtherFinalizer \in cluster.finalizers
          /\ cluster' = ApplyFinalizers(cluster, cluster.finalizers \ {OtherFinalizer})
    /\ cstep' = Env
    /\ UNCHANGED <<monitored, addons, works, ns, rbac, accSeen, delSeen>>

\* The deletion of a terminating resource completes
Finalized(items) ==
    {[items EXCEPT ![i].st = "absent"] : i \in {j \in DOMAIN items : items[j].st = "terminating"}}

\* The owner of a resource deletes it
OwnerDeleted(items, ids) ==
    {[items EXCEPT ![i].st = "terminating"] : i \in {j \in ids : items[j].st = "plain"}}

NamespaceEmpty ==
    /\ \A i \in DOMAIN monitored : monitored[i].st = "absent"
    /\ \A i \in DOMAIN addons : addons[i].st = "absent"
    /\ \A i \in DOMAIN works : works[i].st = "absent"

\* The resources in the namespace move on: finalization completes, the owner of a
\* monitored resource or of a delete-by-other work deletes it
ResourceProgress ==
    /\ UNCHANGED <<taintVars, csrVars, hookVars, agentVars, featVars, spokeVars>>
    /\ \/ /\ monitored' \in Finalized(monitored) \cup OwnerDeleted(monitored, OneId)
          /\ UNCHANGED <<addons, works, ns>>
       \/ /\ addons' \in Finalized(addons)
          /\ UNCHANGED <<monitored, works, ns>>
       \/ /\ works' \in Finalized(works) \cup OwnerDeleted(works, {"wl"})
          /\ UNCHANGED <<monitored, addons, ns>>
       \/ /\ ns' \in Finalized(ns)
          /\ NamespaceEmpty
          /\ UNCHANGED <<monitored, addons, works>>
    /\ cstep' = Env
    /\ UNCHANGED <<cluster, rbac, accSeen, delSeen>>

----------------------------------------------------------------------------

NewCluster == [exists |-> TRUE, hubAcceptsClient |-> FALSE, deleting |-> FALSE,
               finalizers |-> {}, accepted |-> NoCondition, deleteSuccess |-> "none"]

Item(st, byOther) == [st |-> st, byOther |-> byOther]

Absent(ids) == [i \in ids |-> Item("absent", FALSE)]

\* A new cluster; its namespace may exist already, with resources in it
InitDeletion ==
    /\ cluster \in {NewCluster, [NewCluster EXCEPT !.finalizers = {OtherFinalizer}]}
    /\ ns \in [OneId -> {Item("absent", FALSE), Item("plain", FALSE), Item("plain", TRUE)}]
    /\ monitored \in [OneId -> {Item(s, FALSE) : s \in {"absent", "plain"}}]
    /\ addons \in [OneId -> {Item(s, FALSE) : s \in {"absent", "plain"}}]
    /\ works \in {[i \in WorkIds |-> Item(st[i], i = "wl")] :
                     st \in [WorkIds -> {"absent", "plain"}]}
    /\ (\E i \in OneId : ns[i].st = "absent") => NamespaceEmpty
    /\ rbac = FALSE
    /\ accSeen = Idle
    /\ delSeen = Idle
    /\ cstep = NoStep
    /\ NoTaintPart /\ NoCSRPart /\ NoHookPart /\ NoAgentPart /\ NoFeaturePart /\ NoSpokePart

NextDeletion ==
    \/ DeletionGet
    \/ \E f \in DeletionFailures : DeletionSync(f)
    \/ DeleteCluster
    \/ OtherFinalizerWrite
    \/ ResourceProgress

\* The deletion controller and the resources of the cluster namespace
SpecDeletion == InitDeletion /\ [][NextDeletion]_vars

\* A new cluster; its namespace may exist already, with a delete-by-other work in it
InitCluster ==
    /\ cluster \in {NewCluster, [NewCluster EXCEPT !.finalizers = {OtherFinalizer}]}
    /\ ns \in [OneId -> {Item("absent", FALSE), Item("plain", FALSE), Item("plain", TRUE)}]
    /\ monitored = Absent(OneId)
    /\ addons = Absent(OneId)
    /\ works \in {[i \in WorkIds |-> Item(IF i = "wl" THEN s ELSE "absent", i = "wl")] :
                     s \in {"absent", "plain"}}
    /\ (\E i \in OneId : ns[i].st = "absent") => NamespaceEmpty
    /\ rbac = FALSE
    /\ accSeen = Idle
    /\ delSeen = Idle
    /\ cstep = NoStep
    /\ NoTaintPart /\ NoCSRPart /\ NoHookPart /\ NoAgentPart /\ NoFeaturePart /\ NoSpokePart

NextCluster ==
    \/ DeletionGet
    \/ \E f \in DeletionFailures : DeletionSync(f)
    \/ AcceptanceGet
    \/ \E f \in AcceptanceFailures : AcceptanceSync(f)
    \/ AdminSetHubAccepts
    \/ DeleteCluster
    \/ OtherFinalizerWrite
    \/ ResourceProgress

\* Both controllers of the ManagedCluster and the hub admin
SpecCluster == InitCluster /\ [][NextCluster]_vars

----------------------------------------------------------------------------
(* Properties of the deletion controller *)

WorksRemain == \E i \in WorkIds : works[i].st /= "absent"
MonitoredRemain == \E i \in OneId : monitored[i].st /= "absent"
NothingTerminating ==
    /\ \A i \in OneId : monitored[i].st /= "terminating" /\ addons[i].st /= "terminating"
    /\ \A i \in WorkIds : works[i].st /= "terminating"

\* A step that is the deletion controller's sync of a cluster that is being
\* deleted, the sync having seen the deletion timestamp
DeletingSyncStep ==
    /\ cstep'.op = "DeletionSync"
    /\ cluster.exists /\ cluster.deleting
    /\ delSeen.got /\ delSeen.obj.exists /\ delSeen.obj.deleting

\* C1: while a ManifestWork remains in the namespace of a deleting cluster, a sync of
\* the deletion controller does not remove the cleanup finalizer, and a sync that
\* returns no error leaves ContentDeleteSuccess=False (reason ResourceRemaining when
\* no resource is terminating) and requeues.
C1_WorksRemainingKeepFinalizer ==
    [][(DeletingSyncStep /\ WorksRemain /\ HasFinalizer(cluster)) =>
          /\ cluster'.exists /\ HasFinalizer(cluster')
          /\ ~cstep'.err =>
                /\ cstep'.requeue = estimate
                /\ cluster'.deleteSuccess /= "none"
                /\ NothingTerminating => cluster'.deleteSuccess = ResourceRemainReason
      ]_vars

\* C8: no sync of the deletion controller deletes a ManifestWork that carries the
\* delete-by-other label: every delete of works it issues selects the works without
\* the label, and a labelled work is as it was after the sync.
C8_LabelledWorksNotDeleted ==
    [][cstep'.op = "DeletionSync" =>
          /\ cstep'.delWorks \in {"none", "!delete-by-other"}
          /\ \A i \in WorkIds : works[i].byOther => works'[i] = works[i]
      ]_vars

\* A sync has deleted the ordinary work and left the labelled one alone
C8_Witness ==
    /\ cstep.op = "DeletionSync" /\ cstep.delWorks /= "none"
    /\ works["w"].st = "terminating"
    /\ works["wl"].st = "plain"

\* C9: while a resource of the pre-delete monitored type remains in the namespace of
\* a deleting cluster, a sync of the deletion controller deletes no addon, work or
\* namespace, removes no RBAC resource and leaves the finalizers alone; a sync that
\* saw the deletion timestamp and returns no error records ContentDeleteSuccess=False
\* and requeues after 3 s.
C9_MonitorsFirst ==
    [][(cstep'.op = "DeletionSync" /\ cluster.exists /\ cluster.deleting /\ MonitoredRemain) =>
          /\ addons' = addons /\ works' = works /\ ns' = ns /\ rbac' = rbac
          /\ ~cstep'.delAddons /\ cstep'.delWorks = "none" /\ ~cstep'.delNS
          /\ cstep'.rbacRemoval = "none"
          /\ cstep'.finPatch /= "remove"
          /\ cluster'.exists /\ cluster'.finalizers = cluster.finalizers
          /\ (delSeen.obj.exists /\ delSeen.obj.deleting /\ ~cstep'.err) =>
                /\ cluster'.deleteSuccess \in {ResourceRemainReason, FinalizerRemainReason}
                /\ cstep'.cond = cluster'.deleteSuccess
                /\ cstep'.requeue = estimate
      ]_vars

\* A sync found a monitored resource and only reported it, with an addon and works
\* still there to delete
C9_Witness ==
    /\ cstep.op = "DeletionSync" /\ cstep.cond = ResourceRemainReason /\ cstep.requeue = estimate
    /\ cluster.exists /\ cluster.deleting /\ HasFinalizer(cluster)
    /\ MonitoredRemain
    /\ \A i \in OneId : addons[i].st = "plain"
    /\ works["w"].st = "plain"

\* C10: the deletion controller issues the patch that removes the cleanup finalizer
\* only in a sync in which the removal of the RBAC resources ran and returned no error.
C10_RBACRemovedBeforeFinalizer ==
    cstep.finPatch = "remove" => cstep.rbacRemoval = "ok"

----------------------------------------------------------------------------
(* Properties of acceptance *)

\* C2 as stated: a cluster whose condition HubAccepted is True carries the cleanup
\* finalizer.
C2_AcceptedHasFinalizer ==
    (cluster.exists /\ cluster.accepted.status = "True") => HasFinalizer(cluster)

\* C2, amended: a cluster that is not being deleted and whose condition HubAccepted
\* is True carries the cleanup finalizer.
C2_AcceptedLiveHasFinalizer ==
    (cluster.exists /\ ~cluster.deleting /\ cluster.accepted.status = "True")
        => HasFinalizer(cluster)

\* The acceptance controller has just set HubAccepted=True on a cluster that is not
\* being deleted
C2_Witness ==
    /\ cstep.op = "AcceptanceSync" /\ cstep.cond = "True"
    /\ cluster.exists /\ ~cluster.deleting /\ cluster.accepted.status = "True"
    /\ HasFinalizer(cluster)

----------------------------------------------------------------------------
(* Taints: the taint controller and the mutating admission of ManagedClusters *)

\* Clock ticks in one second, the longest clock run, and the longest list of taints a
\* client sends
TicksPerSec == 2
MaxClock == 4
MaxTaints == 2

ManagedClusterTaintUnavailable == "cluster.open-cluster-management.io/unavailable"
ManagedClusterTaintUnreachable == "cluster.open-cluster-management.io/unreachable"
TaintEffectNoSelect == "NoSelect"
TaintEffectPreferNoSelect == "PreferNoSelect"

\* The zero metav1.Time
ZeroTime == 0

Taint(key, value, effect, timeAdded) ==
    [key |-> key, value |-> value, effect |-> effect, timeAdded |-> timeAdded]

UnavailableTaint == Taint(ManagedClusterTaintUnavailable, "", TaintEffectNoSelect, ZeroTime)
UnreachableTaint == Taint(ManagedClusterTaintUnreachable, "", TaintEffectNoSelect, ZeroTime)

\* timeAdded.UTC().Format(time.RFC3339): the time in whole seconds
FormatRFC3339(t) == t \div TicksPerSec

\* helpers.IsTaintEqual as the truth table names a taint: by key and effect
IsTaintEqual(a, b) == a.key = b.key /\ a.effect = b.effect

FindTaint(taints, taint) == \E i \in DOMAIN taints : IsTaintEqual(taints[i], taint)

\* helpers.AddTaints: append the taint unless the list has it
AddTaints(taints, taint) ==
    IF FindTaint(taints, taint)
    THEN [taints |-> taints, updated |-> FALSE]
    ELSE [taints |-> Append(taints, taint), updated |-> TRUE]

\* helpers.RemoveTaints: drop every taint of the list that is one of the targets
RemoveTaints(taints, targets) ==
    LET Kept(t) == \A x \in targets : ~IsTaintEqual(t, x)
        rest == SelectSeq(taints, Kept)
    IN  [taints |-> rest, updated |-> Len(rest) /= Len(taints)]

NoTaint == [found |-> FALSE]

\* helpers.FindTaintByKey: the first taint of the old cluster with the key
FindTaintByKey(taints, key) ==
    IF \E i \in DOMAIN taints : taints[i].key = key
    THEN LET first == CHOOSE i \in DOMAIN taints :
                        /\ taints[i].key = key
                        /\ \A j \in DOMAIN taints : taints[j].key = key => i <= j
         IN  [found |-> TRUE, taint |-> taints[first]]
    ELSE NoTaint

\* The case of processTaints' switch a taint of the request falls into
TaintCase(orig, taint) ==
    IF ~orig.found THEN "new"
    ELSE IF orig.taint.value = taint.value /\ orig.taint.effect = taint.effect
         THEN "unchanged"
         ELSE "changed"

\* An admission that lets the client set the time of an unchanged taint
TaintInvalidUncheckedKeep(orig, taint) ==
    /\ TaintCase(orig, taint) /= "unchanged"
    /\ taint.timeAdded /= ZeroTime

\* processTaints: the taints it appends to invalidTaints
TaintInvalid(orig, taint) ==
    IF TaintCase(orig, taint) = "unchanged"
    THEN orig.taint.timeAdded /= taint.timeAdded
    ELSE taint.timeAdded /= ZeroTime

\* processTaints and the application of its JSON patch: the taints of the request,
\* the new and the changed ones with timeAdded replaced by the formatted clock
processTaints(req, old, clock) ==
    LET orig(i) == FindTaintByKey(old, req[i].key)
        invalidTaints == {i \in DOMAIN req : TaintInvalid(orig(i), req[i])}
        jsonPatches == {i \in DOMAIN req : TaintCase(orig(i), req[i]) /= "unchanged"}
    IN  IF invalidTaints /= {}
        THEN [allowed |-> FALSE, taints |-> old, patches |-> {}]
        ELSE [allowed |-> TRUE,
              taints |-> [i \in DOMAIN req |->
                            IF i \in jsonPatches
                            THEN [req[i] EXCEPT !.timeAdded = FormatRFC3339(clock)]
                            ELSE req[i]],
              patches |-> jsonPatches]

\* A taint controller that mixes up the two taints
SyncTaintsSwapped(available, taints) ==
    CASE available \in {"none", "Unknown"} ->
            LET r == RemoveTaints(taints, {UnreachableTaint})
                a == AddTaints(r.taints, UnavailableTaint)
            IN  [taints |-> a.taints, updated |-> r.updated \/ a.updated]
      [] available = "False" ->
            LET r == RemoveTaints(taints, {UnavailableTaint})
                a == AddTaints(r.taints, UnreachableTaint)
            IN  [taints |-> a.taints, updated |-> r.updated \/ a.updated]
      [] OTHER -> RemoveTaints(taints, {UnavailableTaint, UnreachableTaint})

\* A taint controller that builds spec.taints anew from its own taints
SyncTaintsOnlyManaged(available, taints) ==
    LET new == CASE available \in {"none", "Unknown"} -> <<UnreachableTaint>>
                 [] available = "False" -> <<UnavailableTaint>>
                 [] OTHER -> <<>>
    IN  [taints |-> new, updated |-> new /= taints]

\* The switch of taintController.sync on the condition Available
SyncTaints(available, taints) ==
    CASE available \in {"none", "Unknown"} ->
            LET r == RemoveTaints(taints, {UnavailableTaint})
                a == AddTaints(r.taints, UnreachableTaint)
            IN  [taints |-> a.taints, updated |-> r.updated \/ a.updated]
      [] available = "False" ->
            LET r == RemoveTaints(taints, {UnreachableTaint})
                a == AddTaints(r.taints, UnavailableTaint)
            IN  [taints |-> a.taints, updated |-> r.updated \/ a.updated]
      [] OTHER -> RemoveTaints(taints, {UnavailableTaint, UnreachableTaint})

TaintNoStep ==
    [op |-> "init", err |-> FALSE, plan |-> "none", patched |-> FALSE, allowed |-> TRUE,
     conflict |-> FALSE]
TaintStep(op) == [TaintNoStep EXCEPT !.op = op]

\* What taintController.sync does with its copy: nothing for a cluster that is gone or
\* deleting or whose taints the switch leaves alone, a patch otherwise
SyncPlan(c) ==
    IF c.life /= "live" THEN "skip"
    ELSE IF SyncTaints(c.available, c.taints).updated THEN "patch" ELSE "keep"

\* The copy of the lister is the stored cluster until the stored cluster is written.
\* The patch carries the resourceVersion of the copy, so after a write it is refused,
\* and of an outdated copy only what the sync does with it is kept.
Fresh == [got |-> TRUE, fresh |-> TRUE, plan |-> "none"]
Outdated(seen, c) ==
    IF seen.got /\ seen.fresh THEN [got |-> TRUE, fresh |-> FALSE, plan |-> SyncPlan(c)]
    ELSE seen

\* A patch that carries no uid and no resourceVersion
PatchUnconditional(seen) == FALSE

\* The patch carries the uid and the resourceVersion of the copy: the API server
\* refuses it with a conflict when the stored cluster has been written since
PatchConflict(seen) == ~seen.fresh

\* taintController.sync up to the lister Get
TaintGet ==
    /\ UNCHANGED <<clusterVars, csrVars, hookVars, agentVars, featVars, spokeVars>>
    /\ tSeen = Idle
    /\ tSeen' = Fresh
    /\ tstep' = TaintStep("TaintGet")
    /\ UNCHANGED <<tcluster, now, stamps>>

TaintFailures == {"none", "patch"}

\* taintController.sync after the lister Get
TaintSync(f) ==
    /\ UNCHANGED <<clusterVars, csrVars, hookVars, agentVars, featVars, spokeVars>>
    /\ tSeen.got
    /\ tSeen' = Idle
    /\ LET plan == IF tSeen.fresh THEN SyncPlan(tcluster) ELSE tSeen.plan
           new == SyncTaints(tcluster.available, tcluster.taints)
           adm == processTaints(new.taints, tcluster.taints, now)
       IN  IF plan /= "patch"
           THEN /\ f = "none"
                /\ tstep' = [TaintStep("TaintSync") EXCEPT !.plan = plan]
                /\ UNCHANGED <<tcluster, stamps>>
           ELSE IF f = "patch" \/ PatchConflict(tSeen) \/ ~adm.allowed
           THEN /\ f = "patch" => tSeen.fresh
                /\ tstep' = [TaintStep("TaintSync") EXCEPT !.err = TRUE, !.plan = plan,
                               !.conflict = PatchConflict(tSeen),
                               !.allowed = (f = "patch" \/ PatchConflict(tSeen) \/ adm.allowed)]
                /\ UNCHANGED <<tcluster, stamps>>
           ELSE /\ tcluster' = [tcluster EXCEPT !.taints = adm.taints]
                /\ stamps' = IF adm.patches = {} THEN stamps
                             ELSE stamps \cup {FormatRFC3339(now)}
                /\ tstep' = [TaintStep("TaintSync") EXCEPT !.patched = TRUE, !.plan = plan]
    /\ UNCHANGED now

\* The taints a client sends: the two taints of the controller, its unreachable taint
\* with another effect, and a taint of the client's own with a value; timeAdded unset
\* or any time
TaintShapes ==
    {UnavailableTaint, UnreachableTaint,
     Taint(ManagedClusterTaintUnreachable, "", TaintEffectPreferNoSelect, ZeroTime),
     Taint("a", "v", TaintEffectNoSelect, ZeroTime)}

ClientTaints ==
    {[s EXCEPT !.timeAdded = t] : s \in TaintShapes, t \in 0..FormatRFC3339(MaxClock)}

ClientLists == UNION {[1..n -> ClientTaints] : n \in 0..MaxTaints}

\* A create or update of the cluster by a client, through the mutating admission
ClientWrite ==
    /\ UNCHANGED <<clusterVars, csrVars, hookVars, agentVars, featVars, spokeVars>>
    /\ tcluster.life = "live"
    /\ \E req \in ClientLists :
         LET adm == processTaints(req, tcluster.taints, now) IN
         /\ req /= tcluster.taints
         /\ IF adm.allowed
            THEN /\ tcluster' = [tcluster EXCEPT !.taints = adm.taints]
                 /\ stamps' = IF adm.patches = {} THEN stamps
                              ELSE stamps \cup {FormatRFC3339(now)}
                 /\ tSeen' = Outdated(tSeen, tcluster)
                 /\ tstep' = TaintStep("ClientWrite")
            ELSE /\ tstep' = [TaintStep("ClientWrite") EXCEPT !.allowed = FALSE]
                 /\ UNCHANGED <<tcluster, stamps, tSeen>>
    /\ UNCHANGED now

\* The lease controller or the agent writes the condition Available
SetAvailable ==
    /\ UNCHANGED <<clusterVars, csrVars, hookVars, agentVars, featVars, spokeVars>>
    /\ tcluster.life = "live"
    /\ \E a \in {"Unknown", "False", "True"} :
         /\ a /= tcluster.available
         /\ tcluster' = [tcluster EXCEPT !.available = a]
    /\ tSeen' = Outdated(tSeen, tcluster)
    /\ tstep' = TaintStep("env")
    /\ UNCHANGED <<now, stamps>>

\* The cluster is deleted, and later gone
TaintClusterDeletion ==
    /\ UNCHANGED <<clusterVars, csrVars, hookVars, agentVars, featVars, spokeVars>>
    /\ \/ /\ tcluster.life = "live"
          /\ tcluster' = [tcluster EXCEPT !.life = "deleting"]
       \/ /\ tcluster.life = "deleting"
          /\ tcluster' = [life |-> "gone", available |-> "none", taints |-> <<>>]
    /\ tSeen' = Outdated(tSeen, tcluster)
    /\ tstep' = TaintStep("env")
    /\ UNCHANGED <<now, stamps>>

Tick ==
    /\ UNCHANGED <<clusterVars, csrVars, hookVars, agentVars, featVars, spokeVars>>
    /\ now < MaxClock
    /\ now' = now + 1
    /\ tstep' = TaintStep("env")
    /\ UNCHANGED <<tcluster, stamps, tSeen>>

InitTaint ==
    /\ tcluster = [life |-> "live", available |-> "none", taints |-> <<>>]
    /\ now = TicksPerSec
    /\ stamps = {}
    /\ tSeen = Idle
    /\ tstep = TaintNoStep
    /\ NoClusterPart /\ NoCSRPart /\ NoHookPart /\ NoAgentPart /\ NoFeaturePart /\ NoSpokePart

NextTaint ==
    \/ TaintGet
    \/ \E f \in TaintFailures : TaintSync(f)
    \/ ClientWrite
    \/ SetAvailable
    \/ TaintClusterDeletion
    \/ Tick

SpecTaint == InitTaint /\ [][NextTaint]_vars

----------------------------------------------------------------------------
(* Properties of taints *)

HasTaint(taints, key, effect) ==
    \E i \in DOMAIN taints : taints[i].key = key /\ taints[i].effect = effect

\* The truth table of the taint controller
TruthTable(available, taints) ==
    LET unreachable == HasTaint(taints, ManagedClusterTaintUnreachable, TaintEffectNoSelect)
        unavailable == HasTaint(taints, ManagedClusterTaintUnavailable, TaintEffectNoSelect)
    IN  CASE available \in {"none", "Unknown"} -> unreachable /\ ~unavailable
          [] available = "False" -> unavailable /\ ~unreachable
          [] available = "True" -> ~unavailable /\ ~unreachable

\* C3: after a sync of the taint controller that returns no error, on a current copy of
\* a cluster that is not being deleted, spec.taints obeys the truth table for the
\* condition Available of the copy, whatever the taints were: missing or Unknown, the
\* unreachable NoSelect taint is there and the unavailable one is not; False, the
\* unavailable one is there and the unreachable one is not; True, neither is there.
C3_TaintsFollowAvailable ==
    [][(tstep'.op = "TaintSync" /\ ~tstep'.err /\ tSeen.fresh /\ tcluster.life = "live")
          => TruthTable(tcluster.available, tcluster'.taints)
      ]_vars

\* The controller has replaced the unreachable taint by the unavailable one and kept
\* the client's taint
C3_Witness ==
    /\ tstep.op = "TaintSync" /\ tstep.patched
    /\ tcluster.available = "False"
    /\ Len(tcluster.taints) = 2
    /\ tcluster.taints[1].key = "a"
    /\ tcluster.taints[2].key = ManagedClusterTaintUnavailable

\* C6: every taint of the stored cluster has a timeAdded that is not zero, every write
\* of clients and of the taint controller passing the mutating admission.
C6_TimeAddedSet ==
    \A i \in DOMAIN tcluster.taints : tcluster.taints[i].timeAdded /= ZeroTime

\* The taint controller has added its taint to two of a client, and all three have
\* their time
C6_Witness ==
    /\ tstep.op = "TaintSync" /\ tstep.patched
    /\ Len(tcluster.taints) = 3
    /\ tcluster.taints[3].timeAdded /= ZeroTime

SameTaint(a, b) == a.key = b.key /\ a.value = b.value /\ a.effect = b.effect

\* C7: across an admitted write, the timeAdded of a taint changes only when the value
\* or the effect of the taint changes or the taint is added again; and every stored
\* timeAdded is a time the admission server stamped, never one a client chose.
C7_TimeAddedSetOnce ==
    [][tcluster'.taints /= tcluster.taints =>
          /\ \A i \in DOMAIN tcluster'.taints : \A j \in DOMAIN tcluster.taints :
                SameTaint(tcluster'.taints[i], tcluster.taints[j])
                    => tcluster'.taints[i].timeAdded = tcluster.taints[j].timeAdded
          /\ \A i \in DOMAIN tcluster'.taints : tcluster'.taints[i].timeAdded \in stamps'
      ]_vars

----------------------------------------------------------------------------
(* The approver of certificate signing requests *)

\* Cluster names are sequences of characters; one is a prefix of the other
ClusterNames == {<<"a">>, <<"a", "b">>}

SubjectPrefix == <<"system:open-cluster-management:">>
ManagedClustersGroup == <<"system:open-cluster-management:managed-clusters">>
KubeAPIServerClientSignerName == "kubernetes.io/kube-apiserver-client"
OtherSignerName == "example.io/signer"
\* spec.signerName is a pointer: a request may have none
NilSignerName == "nil"

\* The organization and the user name of the agents of a cluster
ClusterOrg(name) == SubjectPrefix \o name
AgentUser(name) == ClusterOrg(name) \o <<":", "agent">>

\* strings.HasPrefix
HasPrefix(str, prefix) ==
    Len(prefix) <= Len(str) /\ SubSeq(str, 1, Len(prefix)) = prefix

NoCSR ==
    [exists |-> FALSE, label |-> [has |-> FALSE, name |-> <<>>],
     signerName |-> "", request |-> [kind |-> "none", orgs |-> {}, cn |-> <<>>],
     username |-> <<>>, conditions |-> {}]

\* spec.request: bytes that are no PEM block of a certificate request, a block that
\* does not parse, or a certificate request with its organizations and common name
Requests ==
    {[kind |-> k, orgs |-> {}, cn |-> <<>>] : k \in {"notPEM", "unparsable"}}
    \cup {[kind |-> "request", orgs |-> o, cn |-> AgentUser(n)] :
            o \in SUBSET ({ClusterOrg(n) : n \in ClusterNames} \cup {ManagedClustersGroup}),
            n \in ClusterNames}

\* The requests an agent of a cluster can create: the API server sets spec.username
\* to the user it authenticated, the requester chooses everything else
PendingCSRs ==
    {[exists |-> TRUE, label |-> l, signerName |-> sn, request |-> r,
      username |-> AgentUser(u), conditions |-> {}] :
        l \in {[has |-> FALSE, name |-> <<>>]} \cup {[has |-> TRUE, name |-> n] : n \in ClusterNames},
        sn \in {KubeAPIServerClientSignerName, OtherSignerName, NilSignerName},
        r \in Requests,
        u \in ClusterNames}

\* helpers.Isv1beta1CSRInTerminalState
Isv1beta1CSRInTerminalState(conditions) ==
    conditions \cap {"Approved", "Denied", "Failed"} /= {}

\* isV1beta1SpokeClusterClientCertRenewal dereferences csr.Spec.SignerName once it has
\* found the label: without a signer name the sync panics
RenewalCheckPanics(c) == c.label.has /\ c.signerName = NilSignerName

isV1beta1SpokeClusterClientCertRenewal(c) ==
    /\ c.label.has
    /\ c.signerName = KubeAPIServerClientSignerName
    /\ c.request.kind = "request"
    /\ LET requestingOrgs == c.request.orgs \ {ManagedClustersGroup}
           expectedPerClusterOrg == ClusterOrg(c.label.name)
       IN  /\ Cardinality(requestingOrgs) = 1
           /\ expectedPerClusterOrg \in requestingOrgs
           /\ HasPrefix(c.request.cn, expectedPerClusterOrg)
    /\ c.username = c.request.cn

\* The answer of the authorizer to renew on managedclusters/clientcertificates: the
\* role that allows it is bound to the agents of the accepted clusters
SubjectAccessReview(username) ==
    \E n \in ClusterNames : hubAccepted[n] /\ username = AgentUser(n)

\* v1beta1CSRApprovingController.authorize
authorize(c, fail) ==
    IF fail THEN "error"
    ELSE IF SubjectAccessReview(c.username) THEN "allowed" ELSE "denied"

\* An approver that goes on unless the review failed
ApprovesUnlessError(sar) == sar /= "error"

\* sync goes on to approve when authorize returned allowed and no error
Approves(sar) == sar = "allowed"

CSRNoStep ==
    [op |-> "init", err |-> FALSE, panic |-> FALSE, sar |-> "none", approved |-> FALSE]
CSRStep(op) == [CSRNoStep EXCEPT !.op = op]

\* v1beta1CSRApprovingController.sync up to the lister Get
CSRGet ==
    /\ UNCHANGED <<clusterVars, taintVars, hookVars, agentVars, featVars, spokeVars>>
    /\ ~csrSeen.got
    /\ csrSeen' = Got(csr)
    /\ sstep' = CSRStep("CSRGet")
    /\ UNCHANGED <<hubAccepted, csr>>

CSRFailures == {"none", "sar", "update"}

\* v1beta1CSRApprovingController.sync after the lister Get
CSRSync(f) ==
    /\ UNCHANGED <<clusterVars, taintVars, hookVars, agentVars, featVars, spokeVars>>
    /\ csrSeen.got
    /\ csrSeen' = Idle
    /\ UNCHANGED hubAccepted
    /\ LET c == csrSeen.obj
           sar == authorize(c, f = "sar")
       IN  IF ~c.exists \/ Isv1beta1CSRInTerminalState(c.conditions)
           THEN /\ f = "none"
                /\ sstep' = CSRStep("CSRSync")
                /\ UNCHANGED csr
           ELSE IF RenewalCheckPanics(c)
           THEN /\ f = "none"
                /\ sstep' = [CSRStep("CSRSync") EXCEPT !.panic = TRUE]
                /\ UNCHANGED csr
           ELSE IF ~isV1beta1SpokeClusterClientCertRenewal(c)
           THEN /\ f = "none"
                /\ sstep' = CSRStep("CSRSync")
                /\ UNCHANGED csr
           ELSE IF ~Approves(sar)
           THEN /\ f \in {"none", "sar"}
                /\ sstep' = [CSRStep("CSRSync") EXCEPT !.sar = sar, !.err = (sar = "error")]
                /\ UNCHANGED csr
           ELSE IF f = "update" \/ csr /= c
           THEN /\ f /= "sar"
                /\ sstep' = [CSRStep("CSRSync") EXCEPT !.sar = sar, !.err = TRUE]
                /\ UNCHANGED csr
           ELSE /\ f = "none"
                /\ csr' = [csr EXCEPT !.conditions = c.conditions \cup {"Approved"}]
                /\ sstep' = [CSRStep("CSRSync") EXCEPT !.sar = sar, !.approved = TRUE]

\* The acceptance controller has accepted a cluster and applied its RBAC resources,
\* or has removed them after the admin denied the cluster
ClusterAcceptance ==
    /\ UNCHANGED <<clusterVars, taintVars, hookVars, agentVars, featVars, spokeVars>>
    /\ \E n \in ClusterNames : hubAccepted' = [hubAccepted EXCEPT ![n] = ~hubAccepted[n]]
    /\ sstep' = CSRStep("env")
    /\ UNCHANGED <<csr, csrSeen>>

\* An admin approves or denies the pending request, or the signer fails on it
HumanDecision ==
    /\ UNCHANGED <<clusterVars, taintVars, hookVars, agentVars, featVars, spokeVars>>
    /\ csr.exists /\ csr.conditions = {}
    /\ \E d \in {"Approved", "Denied", "Failed"} : csr' = [csr EXCEPT !.conditions = {d}]
    /\ sstep' = CSRStep("env")
    /\ UNCHANGED <<hubAccepted, csrSeen>>

\* The request is garbage-collected
CSRCollected ==
    /\ UNCHANGED <<clusterVars, taintVars, hookVars, agentVars, featVars, spokeVars>>
    /\ csr.exists
    /\ csr' = NoCSR
    /\ sstep' = CSRStep("env")
    /\ UNCHANGED <<hubAccepted, csrSeen>>

InitCSR ==
    /\ hubAccepted = [n \in ClusterNames |-> FALSE]
    /\ csr \in PendingCSRs
    /\ csrSeen = Idle
    /\ sstep = CSRNoStep
    /\ NoClusterPart /\ NoTaintPart /\ NoHookPart /\ NoAgentPart /\ NoFeaturePart /\ NoSpokePart

NextCSR ==
    \/ CSRGet
    \/ \E f \in CSRFailures : CSRSync(f)
    \/ ClusterAcceptance
    \/ HumanDecision
    \/ CSRCollected

SpecCSR == InitCSR /\ [][NextCSR]_vars

----------------------------------------------------------------------------
(* Properties of the approver *)

\* C4: a sync of the approver changes a request only by adding Approved, and only
\* when the SubjectAccessReview of that sync was allowed; when the review fails the
\* sync returns the error, when it is denied the sync returns no error, and in both
\* cases the request is left as it was; no sync marks a request Denied.
C4_ApprovedOnlyAfterReview ==
    [][sstep'.op = "CSRSync" =>
          /\ csr' /= csr =>
                /\ sstep'.sar = "allowed"
                /\ csr' = [csr EXCEPT !.conditions = csr.conditions \cup {"Approved"}]
          /\ sstep'.approved => sstep'.sar = "allowed"
          /\ sstep'.sar = "error" => (sstep'.err /\ csr' = csr)
          /\ sstep'.sar = "denied" => (~sstep'.err /\ csr' = csr)
          /\ "Denied" \in csr'.conditions => "Denied" \in csr.conditions
      ]_vars

\* The approver has approved the renewal of an accepted cluster's agent after an
\* allowed review
C4_Witness ==
    /\ sstep.op = "CSRSync" /\ sstep.sar = "allowed" /\ sstep.approved
    /\ csr.exists /\ csr.conditions = {"Approved"}
    /\ csr.username = AgentUser(csr.label.name)

\* C5: a sync of the approver approves a request only if the cluster its cluster-name
\* label names is accepted at the time of the sync.
C5_ApprovedOnlyForAcceptedCluster ==
    [][(sstep'.op = "CSRSync" /\ sstep'.approved) =>
          (csr.label.has /\ hubAccepted[csr.label.name])
      ]_vars

----------------------------------------------------------------------------
(* More properties of the deletion controller *)

\* C11: a sync of the deletion controller deletes the namespace of the cluster only
\* when the namespace does not carry the delete-by-other label and the sync has found
\* no ManagedClusterAddOn and no ManifestWork, labelled or not, in it; a sync changes
\* the namespace in no other way.
C11_NamespaceDeletedLast ==
    [][cstep'.op = "DeletionSync" =>
          /\ cstep'.delNS =>
                /\ \A i \in OneId : ns[i].st /= "absent" /\ ~ns[i].byOther
                /\ \A i \in OneId : addons[i].st = "absent"
                /\ \A i \in WorkIds : works[i].st = "absent"
          /\ ns' /= ns => cstep'.delNS
      ]_vars

\* A sync has deleted the namespace, nothing being left in it
C11_Witness ==
    /\ cstep.op = "DeletionSync" /\ cstep.delNS
    /\ \A i \in OneId : ns[i].st = "terminating" /\ ~ns[i].byOther
    /\ ~WorksRemain

\* C12: the patch of the finalizers is preconditioned on what the sync read: when
\* another writer has added a finalizer to the cluster since the deletion controller's
\* read, the patch of that sync is rejected, the sync returns the error and the
\* cluster keeps the finalizer of the other writer.
C12_FinalizerPatchPreconditioned ==
    [][(/\ cstep'.op = "DeletionSync" /\ cstep'.finPatch /= "none"
        /\ cluster.exists
        /\ cluster.finalizers \ delSeen.obj.finalizers /= {})
          => (cstep'.err /\ cluster' = cluster)
      ]_vars

----------------------------------------------------------------------------
(* More properties of taints *)

\* C13: when the stored cluster has been written between the taint controller's read
\* and its patch, the patch is refused, the stored cluster keeps its taints, and the
\* sync returns an error.
C13_StalePatchRefused ==
    [][(tstep'.op = "TaintSync" /\ ~tSeen.fresh /\ tSeen.plan = "patch")
          => (tstep'.err /\ tstep'.conflict /\ ~tstep'.patched /\ tcluster' = tcluster)
      ]_vars

\* A patch of the taint controller has met a conflict: a client had written its own
\* taint in between
C13_Witness ==
    /\ tstep.op = "TaintSync" /\ tstep.conflict /\ tstep.err
    /\ tcluster.life = "live"
    /\ Len(tcluster.taints) = 1 /\ tcluster.taints[1].key = "a"

----------------------------------------------------------------------------
(* More properties of acceptance *)

\* C14 as stated: when a sync of the acceptance controller has written HubAccepted=True,
\* the namespace and the RBAC resources were applied without error in that sync and
\* the reason of the condition is HubClusterAdminAccepted.
C14_AcceptedOnlyWhenApplied ==
    (cstep.op = "AcceptanceSync" /\ cstep.cond = "True") =>
        (cstep.applied = "ok" /\ cluster.accepted.reason = "HubClusterAdminAccepted")

\* C14, amended: when a sync of the acceptance controller has written HubAccepted=True,
\* it has applied the resources in that sync; the reason of the condition is
\* HubClusterAdminAccepted when they were applied without error, and otherwise it is
\* Error and the sync returns the error.
C14_AcceptedReasonTellsApply ==
    (cstep.op = "AcceptanceSync" /\ cstep.cond = "True") =>
        /\ cstep.applied \in {"ok", "err"}
        /\ cluster.accepted.status = "True"
        /\ cstep.applied = "ok" => cluster.accepted.reason = "HubClusterAdminAccepted"
        /\ cstep.applied = "err" => (cluster.accepted.reason = "Error" /\ cstep.err)

\* The acceptance controller has written HubAccepted=True with reason Error
C14_Witness ==
    /\ cstep.op = "AcceptanceSync" /\ cstep.cond = "True" /\ cstep.applied = "err"
    /\ cluster.exists /\ cluster.accepted = AcceptedTrue("Error")
    /\ ~rbac

\* C15: a sync of the acceptance controller on a cluster that is not being deleted and
\* has hubAcceptsClient=false never changes the namespace.  When the condition
\* HubAccepted of the cluster is True, the sync runs the removal of the RBAC resources,
\* writes HubAccepted=False only after the removal returned no error, and returns the
\* error of a failed removal without writing.  When the condition is not True, the sync
\* changes no resource and writes no condition.
C15_DeniedRemovesRBACOnly ==
    [][(/\ cstep'.op = "AcceptanceSync"
        /\ accSeen.obj.exists /\ ~accSeen.obj.deleting /\ ~accSeen.obj.hubAcceptsClient)
          => /\ ns' = ns
             /\ IF accSeen.obj.accepted = "True"
                THEN /\ cstep'.rbacRemoval \in {"ok", "err"}
                     /\ cstep'.rbacRemoval = "ok" => ~rbac'
                     /\ cstep'.rbacRemoval = "err" => (cstep'.err /\ cluster' = cluster)
                     /\ cstep'.cond \in {"none", "False"}
                     /\ cstep'.cond = "False" =>
                           (cstep'.rbacRemoval = "ok" /\ cluster'.accepted = AcceptedFalse)
                ELSE /\ rbac' = rbac /\ cluster' = cluster
                     /\ cstep'.rbacRemoval = "none" /\ cstep'.cond = "none"
      ]_vars

\* The acceptance controller has removed the RBAC resources of a denied cluster,
\* written HubAccepted=False and left the namespace
C15_Witness ==
    /\ cstep.op = "AcceptanceSync" /\ cstep.cond = "False" /\ cstep.rbacRemoval = "ok"
    /\ cluster.exists /\ ~cluster.hubAcceptsClient /\ cluster.accepted = AcceptedFalse
    /\ ~rbac
    /\ \A i \in OneId : ns[i].st = "plain"

----------------------------------------------------------------------------
(* More properties of the approver *)

\* The checks of a renewal, one by one
IsRenewal(c) ==
    /\ c.label.has
    /\ c.signerName = KubeAPIServerClientSignerName
    /\ c.request.kind = "request"
    /\ \E org \in c.request.orgs \ {ManagedClustersGroup} :
         /\ c.request.orgs \ {ManagedClustersGroup} = {org}
         /\ org = ClusterOrg(c.label.name)
         /\ HasPrefix(c.request.cn, org)
    /\ c.username = c.request.cn

\* C16: a sync of the approver on a pending request issues a SubjectAccessReview if and
\* only if the request is a renewal: it has the cluster-name label, the signer
\* kubernetes.io/kube-apiserver-client, a request that parses, one organization besides
\* the legacy one, which is the one of the labelled cluster, a common name that starts
\* with it, and a user name equal to the common name.  Any other request, one without
\* signer name included, is ignored: no review, no change, no error.
C16_RenewalRecognition ==
    [][(/\ sstep'.op = "CSRSync"
        /\ csrSeen.obj.exists /\ ~Isv1beta1CSRInTerminalState(csrSeen.obj.conditions))
          => /\ sstep'.sar /= "none" <=> IsRenewal(csrSeen.obj)
             /\ ~IsRenewal(csrSeen.obj) =>
                   (csr' = csr /\ ~sstep'.err /\ ~sstep'.panic /\ ~sstep'.approved)
      ]_vars

----------------------------------------------------------------------------
(* The mutating admission hook, request by request *)

StatusBadRequest == 400

\* newTaintTimeAddedJsonPatch: the index is the one of the Go slice, from 0
newTaintTimeAddedJsonPatch(index, timeAdded) ==
    [op |-> "replace", path |-> <<"spec", "taints", index, "timeAdded">>,
     value |-> FormatRFC3339(timeAdded)]

\* The loop of processTaints after its first n rounds: the keys it has appended to
\* invalidTaints and the operations it has appended to jsonPatches
RECURSIVE taintsLoop(_, _, _, _)
taintsLoop(taints, old, clock, n) ==
    IF n = 0 THEN [invalidTaints |-> <<>>, jsonPatches |-> <<>>]
    ELSE LET prev == taintsLoop(taints, old, clock, n - 1)
             taint == taints[n]
             originalTaint == FindTaintByKey(old, taint.key)
             invalid == [prev EXCEPT !.invalidTaints = Append(@, taint.key)]
             stamped == [prev EXCEPT !.jsonPatches =
                            Append(@, newTaintTimeAddedJsonPatch(n - 1, clock))]
         IN  IF TaintCase(originalTaint, taint) = "unchanged"
             THEN IF originalTaint.taint.timeAdded /= taint.timeAdded
                  THEN invalid ELSE prev
             ELSE IF taint.timeAdded /= ZeroTime THEN invalid ELSE stamped

NoResult == [code |-> 0, taints |-> <<>>]

\* processManagedCluster with processTaints: the admission response.  The message of
\* a refusal is kept as the list of keys it joins with commas.
processManagedCluster(taints, old, clock) ==
    LET end == taintsLoop(taints, old, clock, Len(taints))
    IN  IF end.invalidTaints = <<>>
        THEN [allowed |-> TRUE, result |-> NoResult, patch |-> end.jsonPatches]
        ELSE [allowed |-> FALSE,
              result |-> [code |-> StatusBadRequest, taints |-> end.invalidTaints],
              patch |-> <<>>]

\* The API server applies the JSON patch of the response to the object of the request
RECURSIVE ApplyJSONPatch(_, _)
ApplyJSONPatch(taints, patch) ==
    IF patch = <<>> THEN taints
    ELSE ApplyJSONPatch([taints EXCEPT ![Head(patch).path[3] + 1].timeAdded =
                                          Head(patch).value],
                        Tail(patch))

\* The taints a stored cluster has: every one with the time of an admission
StoredTaints ==
    {[s EXCEPT !.timeAdded = t] : s \in TaintShapes, t \in 1..FormatRFC3339(MaxClock)}

StoredLists == UNION {[1..n -> StoredTaints] : n \in 0..MaxTaints}

NoResponse == [allowed |-> FALSE, result |-> NoResult, patch |-> <<>>]

AdmissionRequest(old, req, clock, again) ==
    [phase |-> "request", old |-> old, req |-> req, now |-> clock, again |-> again,
     resp |-> NoResponse]

StatusInternalServerError == 500

\* Label keys as prefix and name
clusterSetLabel == <<"cluster.open-cluster-management.io/", "clusterset">>
EmptyKey == <<"", "">>

\* spec.clusterSelector.exclusiveLabel is a pointer
NoExclusiveLabel == [set |-> FALSE, key |-> <<"", "">>, value |-> ""]
ManagedClusterLabel(key, value) == [set |-> TRUE, key |-> key, value |-> value]

\* The two fields of spec.clusterSelector of a ManagedClusterSet
ClusterSelector(selectorType, exclusiveLabel) ==
    [selectorType |-> selectorType, exclusiveLabel |-> exclusiveLabel]

\* jsonpatch.CreatePatch: one operation for every field of the new object that
\* differs, kept as the value by the path of the field
CreatePatch(raw, new) ==
    [f \in {g \in DOMAIN new : raw[g] /= new[g]} |-> new[f]]

\* The API server applies the operations to the object of the request
ApplyPatch(raw, patch) ==
    [f \in DOMAIN raw |-> IF f \in DOMAIN patch THEN patch[f] ELSE raw[f]]

\* A hook that takes any value of the exclusive label
procesManagedClusterSetSpecAnyValue(clusterSet) ==
    LET sel == clusterSet.clusterSelector
        newClusterSet ==
            ClusterSelector(IF sel.selectorType = "" THEN "ExclusiveLabel"
                            ELSE sel.selectorType,
                            ManagedClusterLabel(clusterSetLabel, clusterSet.name))
    IN  IF ~clusterSet.decodes
        THEN [allowed |-> FALSE, code |-> StatusBadRequest, patch |-> <<>>]
        ELSE IF /\ sel.exclusiveLabel.set
                /\ sel.exclusiveLabel.key /= EmptyKey
                /\ sel.exclusiveLabel.key /= clusterSetLabel
        THEN [allowed |-> FALSE, code |-> StatusInternalServerError, patch |-> <<>>]
        ELSE [allowed |-> TRUE, code |-> 0, patch |-> CreatePatch(sel, newClusterSet)]

\* processManagedClusterSet with procesManagedClusterSetSpec
procesManagedClusterSetSpec(clusterSet) ==
    LET sel == clusterSet.clusterSelector
        newClusterSet ==
            ClusterSelector(IF sel.selectorType = "" THEN "ExclusiveLabel"
                            ELSE sel.selectorType,
                            ManagedClusterLabel(clusterSetLabel, clusterSet.name))
    IN  IF ~clusterSet.decodes
        THEN [allowed |-> FALSE, code |-> StatusBadRequest, patch |-> <<>>]
        ELSE IF /\ sel.exclusiveLabel.set
                /\ sel.exclusiveLabel.key /= EmptyKey
                /\ sel.exclusiveLabel.key /= clusterSetLabel
        THEN [allowed |-> FALSE, code |-> StatusInternalServerError, patch |-> <<>>]
        ELSE IF /\ sel.exclusiveLabel.set
                /\ sel.exclusiveLabel.value /= ""
                /\ sel.exclusiveLabel.value /= clusterSet.name
        THEN [allowed |-> FALSE, code |-> StatusInternalServerError, patch |-> <<>>]
        ELSE [allowed |-> TRUE, code |-> 0, patch |-> CreatePatch(sel, newClusterSet)]

ClusterSetNames == {"set1", "set2"}

\* The exclusive labels a client may send: none, or a key and a value
ExclusiveLabels ==
    {NoExclusiveLabel}
        \cup {ManagedClusterLabel(k, v) :
                k \in {EmptyKey, clusterSetLabel, <<"example.io/", "set">>},
                v \in {""} \cup ClusterSetNames}

\* The mutating hook answers a request for a ManagedClusterSet
MutateClusterSet ==
    /\ UNCHANGED <<clusterVars, taintVars, csrVars, agentVars, featVars, validation, spokeVars>>
    /\ admission.phase = "clusterset request"
    /\ admission' = [admission EXCEPT !.phase = "clusterset response",
                                      !.resp = procesManagedClusterSetSpec(admission.object)]

\* The mutating hook answers the request
Mutate ==
    /\ UNCHANGED <<clusterVars, taintVars, csrVars, agentVars, featVars, validation, spokeVars>>
    /\ admission.phase = "request"
    /\ admission' = [admission EXCEPT !.phase = "response",
                          !.resp = processManagedCluster(admission.req, admission.old, admission.now)]

\* The client of an admitted write sends the object it got back once more
Resubmit ==
    /\ UNCHANGED <<clusterVars, taintVars, csrVars, agentVars, featVars, validation, spokeVars>>
    /\ admission.phase = "response" /\ admission.resp.allowed /\ ~admission.again
    /\ \E clock \in admission.now..MaxClock :
         LET stored == ApplyJSONPatch(admission.req, admission.resp.patch)
         IN  admission' = AdmissionRequest(stored, stored, clock, TRUE)

\* A create (nothing stored) or an update of a cluster, at some time of the server
InitClusterRequests ==
    /\ admission \in {AdmissionRequest(old, req, clock, FALSE) :
                  old \in StoredLists, req \in ClientLists, clock \in TicksPerSec..MaxClock}
    /\ \A i \in DOMAIN admission.old : admission.old[i].timeAdded <= FormatRFC3339(admission.now)

\* A create or an update of a ManagedClusterSet
InitClusterSetRequests ==
    \E op \in {"CREATE", "UPDATE"}, name \in ClusterSetNames, decodes \in BOOLEAN,
       selectorType \in {"", "ExclusiveLabel", "LabelSelector"},
       exclusiveLabel \in ExclusiveLabels :
         admission = [phase |-> "clusterset request", operation |-> op,
                      object |-> [name |-> name, decodes |-> decodes,
                                  clusterSelector |->
                                      ClusterSelector(selectorType, exclusiveLabel)],
                      resp |-> [allowed |-> TRUE, code |-> 0, patch |-> <<>>]]

InitMutate ==
    /\ InitClusterRequests \/ InitClusterSetRequests
    /\ NoClusterPart /\ NoTaintPart /\ NoCSRPart /\ NoValidatingHook /\ NoAgentPart /\ NoFeaturePart /\ NoSpokePart

NextMutate == Mutate \/ Resubmit \/ MutateClusterSet

SpecMutate == InitMutate /\ [][NextMutate]_vars

\* How a taint of a request stands to the stored object
KeyAbsent(old, taint) == \A j \in DOMAIN old : old[j].key /= taint.key
Stored(old, taint) == \E j \in DOMAIN old : SameTaint(old[j], taint)
StoredWithTime(old, taint) ==
    \E j \in DOMAIN old : SameTaint(old[j], taint) /\ old[j].timeAdded = taint.timeAdded
NewOrChanged(old, taint) == KeyAbsent(old, taint) \/ ~Stored(old, taint)

\* C17: the patch of an admitted request holds exactly one operation
\* replace /spec/taints/<i>/timeAdded for every index whose taint is new (no stored
\* taint has its key) or changed (the key is stored, with another value or effect),
\* each with the time of the server formatted in RFC3339, and no other operation.
C17_PatchStampsNewAndChanged ==
    (admission.phase = "response" /\ admission.resp.allowed) =>
        LET patch == admission.resp.patch
            want == {i \in DOMAIN admission.req : NewOrChanged(admission.old, admission.req[i])}
        IN  /\ \A i \in want :
                  Cardinality({k \in DOMAIN patch : patch[k].path[3] = i - 1}) = 1
            /\ \A k \in DOMAIN patch :
                  /\ patch[k] = newTaintTimeAddedJsonPatch(patch[k].path[3], admission.now)
                  /\ patch[k].path[3] + 1 \in want

\* The taints of a request the admission must not let pass: a new or changed one that
\* comes with a time, a stored one that comes with another time than the stored
Violating(old, taint) ==
    IF Stored(old, taint) THEN ~StoredWithTime(old, taint)
    ELSE taint.timeAdded /= ZeroTime

\* The keys of the taints at the indexes, in the order of the list
KeysInOrder(taints, indexes) ==
    [k \in 1..Cardinality(indexes) |->
        taints[CHOOSE i \in indexes : Cardinality({j \in indexes : j < i}) = k - 1].key]

\* C18: the mutating hook refuses a request if and only if one of its taints is new or
\* changed and has timeAdded set, or is unchanged and has a timeAdded other than the
\* stored one; the refusal is one 400 Bad Request that names the keys of all these
\* taints in the order of spec.taints, and it carries no patch.
C18_RejectsExactlyViolations ==
    admission.phase = "response" =>
        LET bad == {i \in DOMAIN admission.req : Violating(admission.old, admission.req[i])}
        IN  /\ ~admission.resp.allowed <=> bad /= {}
            /\ ~admission.resp.allowed =>
                  /\ admission.resp.result.code = StatusBadRequest
                  /\ admission.resp.result.taints = KeysInOrder(admission.req, bad)
                  /\ admission.resp.patch = <<>>

\* C19: a request whose taints are the stored taints, times included, is admitted
\* without a patch; so is the object of an admitted write when it is sent again.
C19_UnchangedListIsNoOp ==
    (admission.phase = "response" /\ admission.req = admission.old) =>
        (admission.resp.allowed /\ admission.resp.patch = <<>>)

----------------------------------------------------------------------------
(* The validating admission hook, request by request *)

StatusForbidden == 403
MaxURLs == 2

NoMessage == [kind |-> "none"]
Admitted == [allowed |-> TRUE, code |-> 0, message |-> NoMessage]
Refused(code, message) == [allowed |-> FALSE, code |-> code, message |-> message]

\* The prefixes of the label keys that need a permission, and two more keys
internalClusterSetLabelPrefix == "cluster.open-cluster-management.io/"
infoClusterSetLabelPrefix == "info.open-cluster-management.io/"
InfoLabel == <<"info.open-cluster-management.io/", "region">>
PlainLabel == <<"example.io/", "app">>
Label(key, value) == [key |-> key, value |-> value]

\* strings.HasPrefix on a label key
KeyHasPrefix(key, prefix) == key[1] = prefix

\* The resource attributes of the review of allowUpdateAcceptField.  Resource names
\* are kept as the list of the strings they are joined from.
AcceptReview(clusterName) ==
    [group |-> "register.open-cluster-management.io", resource |-> "managedclusters",
     verb |-> "update", subresource |-> "accept", name |-> <<clusterName>>]

\* The resource attributes of the review of allowJoinClusterSet
JoinReview(clusterSetName) ==
    [group |-> "cluster.open-cluster-management.io", resource |-> "managedclustersets",
     verb |-> "create", subresource |-> "join", name |-> <<clusterSetName>>]

\* The resource attributes of the review of checkLabelPermission; the resource name is
\* labelKey + ":" + labelValue or labelKey + ":*"
LabelReview(key, value) ==
    [group |-> "cluster.open-cluster-management.io", resource |-> "managedclusters",
     verb |-> "create", subresource |-> "label", name |-> <<key, ":", value>>]

\* helpers.IsValidHTTPSURL
IsValidHTTPSURL(url) == url.parses /\ url.scheme = "https"

\* allowUpdateAcceptField: the review is created; an error of the call and a denial
\* are both answered with 403
allowUpdateAcceptField(clusterName, answer) ==
    [sars |-> <<AcceptReview(clusterName)>>,
     resp |-> CASE answer = "allowed" -> Admitted
                [] answer = "denied" ->
                     Refused(StatusForbidden, [kind |-> "cannot update the HubAcceptsClient field"])
                [] OTHER -> Refused(StatusForbidden, [kind |-> "err.Error()"])]

\* getDiffLabels: the labels deleted and the labels added; a label whose value differs
\* is in both
getDiffLabels(oldLabels, newLabels) ==
    IF oldLabels = {} THEN [deleteLabels |-> {}, addLabels |-> newLabels]
    ELSE IF newLabels = {} THEN [deleteLabels |-> oldLabels, addLabels |-> {}]
    ELSE [deleteLabels |-> {l \in oldLabels : l \notin newLabels},
          addLabels |-> {l \in newLabels : l \notin oldLabels}]

filterRbacCheckLabels(labels) ==
    {l \in labels : \/ KeyHasPrefix(l.key, internalClusterSetLabelPrefix)
                    \/ KeyHasPrefix(l.key, infoClusterSetLabelPrefix)}

\* One round of the loop of allowUpdateLabels: the reviews it creates for the label
\* and whether one of them allowed.  A review that fails counts as not allowed.
checkLabel(l, allowed) ==
    LET join == IF l.key = clusterSetLabel THEN <<JoinReview(l.value)>> ELSE <<>>
        exact == LabelReview(l.key, l.value)
        any == LabelReview(l.key, "*")
    IN  IF l.key = clusterSetLabel /\ JoinReview(l.value) \in allowed
        THEN [sars |-> join, ok |-> TRUE]
        ELSE IF exact \in allowed THEN [sars |-> join \o <<exact>>, ok |-> TRUE]
        ELSE [sars |-> join \o <<exact, any>>, ok |-> any \in allowed]

\* allowUpdateLabels on the labels in the order the range over the map yields them
RECURSIVE allowUpdateLabels(_, _)
allowUpdateLabels(labels, allowed) ==
    IF labels = <<>> THEN [sars |-> <<>>, resp |-> Admitted]
    ELSE LET this == checkLabel(Head(labels), allowed)
             rest == allowUpdateLabels(Tail(labels), allowed)
         IN  IF this.ok
             THEN [sars |-> this.sars \o rest.sars, resp |-> rest.resp]
             ELSE [sars |-> this.sars,
                   resp |-> Refused(StatusForbidden,
                                    [kind |-> "cannot add/remove the label",
                                     label |-> Head(labels)])]

\* The orders in which a range over a Go map may yield its entries
MapOrders(labels) ==
    {s \in [1..Cardinality(labels) -> labels] : \A i, j \in DOMAIN s : s[i] = s[j] => i = j}

\* A hook that checks the labels added and forgets the labels deleted
validUpdateLabelPermissionAddedOnly(deleteOrder, addOrder, allowed) ==
    allowUpdateLabels(addOrder, allowed)

\* validUpdateLabelPermission, given the filtered labels as the map ranges yield them
validUpdateLabelPermission(deleteOrder, addOrder, allowed) ==
    IF deleteOrder = <<>> /\ addOrder = <<>> THEN [sars |-> <<>>, resp |-> Admitted]
    ELSE IF deleteOrder = <<>> THEN allowUpdateLabels(addOrder, allowed)
    ELSE IF addOrder = <<>> THEN allowUpdateLabels(deleteOrder, allowed)
    ELSE LET deleteStatus == allowUpdateLabels(deleteOrder, allowed)
             addStatus == allowUpdateLabels(addOrder, allowed)
         IN  IF ~deleteStatus.resp.allowed THEN deleteStatus
             ELSE [sars |-> deleteStatus.sars \o addStatus.sars, resp |-> addStatus.resp]

\* A hook that asks for the review only when the cluster is being accepted
AcceptFieldRaised(new, old) == new /\ ~old

\* validateUpdateRequest: newManagedCluster.Spec.HubAcceptsClient !=
\* oldManagedCluster.Spec.HubAcceptsClient
AcceptFieldChanged(new, old) == new /= old

\* A hook that lets the object pass whatever its URLs
validateManagedClusterObjNoURLs(r) == r.objectDecodes

\* validateManagedClusterObj: no error
validateManagedClusterObj(r) ==
    r.objectDecodes /\ \A url \in r.urls : IsValidHTTPSURL(url)

\* The rest of a validation once the objects have been decoded and validated
afterObject(r, auth, needsReview, oldLabels, orders) ==
    LET accept == allowUpdateAcceptField(r.name, auth.accept)
        labels == validUpdateLabelPermission(orders.delete, orders.add, auth.allowed)
    IN  IF needsReview /\ ~accept.resp.allowed THEN accept
        ELSE IF needsReview
             THEN [sars |-> accept.sars \o labels.sars, resp |-> labels.resp]
             ELSE labels

validateCreateRequest(r, auth, orders) ==
    IF ~validateManagedClusterObj(r)
    THEN [sars |-> <<>>, resp |-> Refused(StatusBadRequest, [kind |-> "err.Error()"])]
    ELSE afterObject(r, auth, r.hubAcceptsClient, {}, orders)

validateUpdateRequest(r, auth, orders) ==
    IF ~r.oldDecodes \/ ~validateManagedClusterObj(r)
    THEN [sars |-> <<>>, resp |-> Refused(StatusBadRequest, [kind |-> "err.Error()"])]
    ELSE afterObject(r, auth, AcceptFieldChanged(r.hubAcceptsClient, r.oldHubAcceptsClient),
                     r.oldLabels, orders)

\* ManagedClusterValidatingAdmissionHook.Validate
Validate(r, auth, orders) ==
    IF r.resource /= "managedclusters" THEN [sars |-> <<>>, resp |-> Admitted]
    ELSE CASE r.operation = "CREATE" -> validateCreateRequest(r, auth, orders)
           [] r.operation = "UPDATE" -> validateUpdateRequest(r, auth, orders)
           [] OTHER -> [sars |-> <<>>, resp |-> Admitted]

\* The labels the range of validUpdateLabelPermission runs over, by operation
DiffOf(r) ==
    getDiffLabels(IF r.operation = "CREATE" THEN {} ELSE r.oldLabels, r.labels)

ValidationNames == {"cluster1", "cluster2"}

\* The URLs of clientConfigs: one that does not parse, and parsed ones by scheme
URLs ==
    {[parses |-> FALSE, scheme |-> ""]}
        \cup {[parses |-> TRUE, scheme |-> s] : s \in {"https", "http", ""}}

\* Label maps: at most one value per key
LabelMaps ==
    {cs \cup info \cup app :
        cs \in {{}} \cup {{Label(clusterSetLabel, v)} : v \in {"set1", "set2"}},
        info \in {{}, {Label(InfoLabel, "eu")}},
        app \in {{}, {Label(PlainLabel, "web")}}}

\* The reviews the labels of the model can lead to
LabelReviews ==
    {JoinReview(v) : v \in {"set1", "set2"}}
        \cup {LabelReview(clusterSetLabel, v) : v \in {"set1", "set2", "*"}}
        \cup {LabelReview(InfoLabel, v) : v \in {"eu", "*"}}

ValidationRequest(res, op, decodes, oldDecodes, name, accept, oldAccept, urls, labels, oldLabels) ==
    [resource |-> res, operation |-> op, objectDecodes |-> decodes,
     oldDecodes |-> oldDecodes, name |-> name, hubAcceptsClient |-> accept,
     oldHubAcceptsClient |-> oldAccept, urls |-> urls, labels |-> labels,
     oldLabels |-> oldLabels]

URLSets == {u \in SUBSET URLs : Cardinality(u) <= MaxURLs}

ValidationStart(r, auth) ==
    [phase |-> "request", request |-> r, authorizer |-> auth,
     sars |-> <<>>, resp |-> Admitted, second |-> Admitted]

\* Requests that vary the resource, the operation, the objects, hubAcceptsClient and
\* the URLs, over few labels
InitObjectRequests ==
    \E res \in {"managedclusters", "managedclustersets"},
       op \in {"CREATE", "UPDATE", "DELETE"},
       d \in BOOLEAN \X BOOLEAN, name \in ValidationNames, acc \in BOOLEAN \X BOOLEAN,
       urls \in URLSets, labels \in {{}, {Label(clusterSetLabel, "set1")}},
       a \in {"allowed", "denied", "error"}, allowed \in {{}, LabelReviews} :
         validation = ValidationStart(
             ValidationRequest(res, op, d[1], d[2], name, acc[1], acc[2], urls, labels, {}),
             [accept |-> a, allowed |-> allowed])

\* Requests that vary the labels and the permissions on them
InitLabelRequests ==
    \E op \in {"CREATE", "UPDATE"}, labels \in LabelMaps, oldLabels \in LabelMaps,
       allowed \in SUBSET LabelReviews :
         validation = ValidationStart(
             ValidationRequest("managedclusters", op, TRUE, TRUE, "cluster1", FALSE, FALSE,
                               {}, labels, oldLabels),
             [accept |-> "denied", allowed |-> allowed])

\* A create has no old object
NoOldObject(r) ==
    r.operation = "CREATE" => (r.oldDecodes /\ ~r.oldHubAcceptsClient /\ r.oldLabels = {})

\* The outcomes of one evaluation of the hook on the request, one for each order in
\* which the ranges over the label maps can run
Evaluations(r, auth) ==
    LET diff == DiffOf(r)
    IN  {Validate(r, auth, [delete |-> d, add |-> a]) :
            d \in MapOrders(filterRbacCheckLabels(diff.deleteLabels)),
            a \in MapOrders(filterRbacCheckLabels(diff.addLabels))}

\* The validating hook answers the request
ValidateRequest ==
    /\ UNCHANGED <<clusterVars, taintVars, csrVars, agentVars, featVars, admission, spokeVars>>
    /\ validation.phase = "request"
    /\ \E v \in Evaluations(validation.request, validation.authorizer) :
         validation' = [validation EXCEPT !.phase = "response",
                                          !.sars = v.sars, !.resp = v.resp]

\* The same request is sent once more, the authorizer answering as before
ValidateAgain ==
    /\ UNCHANGED <<clusterVars, taintVars, csrVars, agentVars, featVars, admission, spokeVars>>
    /\ validation.phase = "response"
    /\ \E v \in Evaluations(validation.request, validation.authorizer) :
         validation' = [validation EXCEPT !.phase = "again", !.second = v.resp]

InitValidate ==
    /\ InitObjectRequests \/ InitLabelRequests
    /\ NoOldObject(validation.request)
    /\ NoClusterPart /\ NoTaintPart /\ NoCSRPart /\ NoMutatingHook /\ NoAgentPart /\ NoFeaturePart /\ NoSpokePart

NextValidate == ValidateRequest \/ ValidateAgain

SpecValidate == InitValidate /\ [][NextValidate]_vars

\* The request sets or changes hubAcceptsClient
SetsOrChangesAccept(r) ==
    \/ r.operation = "CREATE" /\ r.hubAcceptsClient
    \/ r.operation = "UPDATE" /\ r.hubAcceptsClient /= r.oldHubAcceptsClient

\* C20: a create of a cluster with hubAcceptsClient true, and an update that changes
\* hubAcceptsClient in either direction, is admitted only after a review of verb
\* update on subresource accept of managedclusters, named after the cluster, that
\* answered allowed; an error of the review and a denial are answered with 403; a
\* create with hubAcceptsClient false and an update that leaves it alone issue no
\* review of accept.
C20_AcceptNeedsReview ==
    (/\ validation.phase = "response"
     /\ validation.request.resource = "managedclusters"
     /\ validation.request.operation \in {"CREATE", "UPDATE"}) =>
        LET r == validation.request
            reviewed == \E k \in DOMAIN validation.sars :
                           validation.sars[k] = AcceptReview(r.name)
            anyAccept == \E k \in DOMAIN validation.sars :
                            validation.sars[k].subresource = "accept"
        IN  IF SetsOrChangesAccept(r)
            THEN /\ validation.resp.allowed =>
                       (reviewed /\ validation.authorizer.accept = "allowed")
                 /\ (reviewed /\ validation.authorizer.accept /= "allowed") =>
                       (~validation.resp.allowed /\ validation.resp.code = StatusForbidden)
                 /\ (r.objectDecodes /\ r.oldDecodes /\ \A u \in r.urls : IsValidHTTPSURL(u))
                       => reviewed
            ELSE ~anyAccept

\* An update that takes the acceptance back, reviewed and admitted
C20_Witness ==
    /\ validation.phase = "response"
    /\ validation.request.resource = "managedclusters"
    /\ validation.request.operation = "UPDATE"
    /\ validation.request.oldHubAcceptsClient /\ ~validation.request.hubAcceptsClient
    /\ validation.sars = <<AcceptReview(validation.request.name)>>
    /\ validation.resp.allowed

----------------------------------------------------------------------------
(* Properties of the label checks of the validating hook *)

ProtectedKey(key) ==
    key[1] \in {"cluster.open-cluster-management.io/", "info.open-cluster-management.io/"}

\* The protected labels a request removes and adds; a new value is both
RemovedLabels(r) ==
    {l \in (IF r.operation = "CREATE" THEN {} ELSE r.oldLabels) :
        l \notin r.labels /\ ProtectedKey(l.key)}
AddedLabels(r) ==
    {l \in r.labels :
        l \notin (IF r.operation = "CREATE" THEN {} ELSE r.oldLabels) /\ ProtectedKey(l.key)}

\* The reviews that can permit a label, in the order they are tried
Candidates(l) ==
    (IF l.key = clusterSetLabel THEN <<JoinReview(l.value)>> ELSE <<>>)
        \o <<LabelReview(l.key, l.value), LabelReview(l.key, "*")>>

Permitted(l, allowed) == \E k \in DOMAIN Candidates(l) : Candidates(l)[k] \in allowed

\* The reviews tried for a label: up to the first that allows
Attempts(l, allowed) ==
    IF ~Permitted(l, allowed) THEN Candidates(l)
    ELSE SubSeq(Candidates(l), 1,
                CHOOSE k \in DOMAIN Candidates(l) :
                    /\ Candidates(l)[k] \in allowed
                    /\ \A j \in 1..(k - 1) : Candidates(l)[j] \notin allowed)

\* The reviews of a pass over the labels that ends at the first label not permitted
RECURSIVE Pass(_, _)
Pass(labels, allowed) ==
    IF labels = <<>> THEN <<>>
    ELSE IF Permitted(Head(labels), allowed)
         THEN Attempts(Head(labels), allowed) \o Pass(Tail(labels), allowed)
         ELSE Attempts(Head(labels), allowed)

\* The request has passed the validation of its objects and the review of accept
ReachesLabels(v) ==
    /\ v.request.resource = "managedclusters"
    /\ v.request.operation \in {"CREATE", "UPDATE"}
    /\ v.request.objectDecodes /\ v.request.oldDecodes
    /\ \A u \in v.request.urls : IsValidHTTPSURL(u)
    /\ SetsOrChangesAccept(v.request) => v.authorizer.accept = "allowed"

\* C21: a write that reaches the label checks is admitted if and only if every
\* protected label it removes and every protected label it adds is permitted by one
\* of the reviews join (clusterset label only), label key:value, label key:*; the
\* reviews issued are those of the removed labels and then of the added labels, for
\* each label in that order up to the first allow, ending at the first label that is
\* not permitted; a refusal is a 403 that names a label that is not permitted, a
\* removed one if there is one.  Other labels cause no review.
C21_LabelChangesNeedReview ==
    (validation.phase = "response" /\ ReachesLabels(validation)) =>
        LET r == validation.request
            allowed == validation.authorizer.allowed
            removed == RemovedLabels(r)
            added == AddedLabels(r)
            denied(S) == {l \in S : ~Permitted(l, allowed)}
            labelSars == IF SetsOrChangesAccept(r) THEN Tail(validation.sars)
                         ELSE validation.sars
        IN  /\ validation.resp.allowed <=> denied(removed \cup added) = {}
            /\ ~validation.resp.allowed =>
                  /\ validation.resp.code = StatusForbidden
                  /\ validation.resp.message.kind = "cannot add/remove the label"
                  /\ validation.resp.message.label \in
                        (IF denied(removed) /= {} THEN denied(removed) ELSE denied(added))
            /\ \E d \in MapOrders(removed), a \in MapOrders(added) :
                  labelSars = Pass(d \o a, allowed)

\* The clusterset label gets another value; join is denied for both sets, the old
\* value passes by label key:value and the new one by label key:*
C21_Witness ==
    /\ validation.phase = "response" /\ validation.resp.allowed
    /\ validation.request.operation = "UPDATE"
    /\ validation.request.oldLabels = {Label(clusterSetLabel, "set1")}
    /\ validation.request.labels = {Label(clusterSetLabel, "set2"), Label(PlainLabel, "web")}
    /\ validation.sars =
          <<JoinReview("set1"), LabelReview(clusterSetLabel, "set1"),
            JoinReview("set2"), LabelReview(clusterSetLabel, "set2"),
            LabelReview(clusterSetLabel, "*")>>

\* C22: two evaluations of one request under one authorizer give the same response,
\* the message of a 403 included, also when several protected labels are added or
\* removed and more than one of them is denied.
C22_DenialIsDeterministic ==
    validation.phase = "again" => validation.second = validation.resp

----------------------------------------------------------------------------
(* Properties of the object validation of the validating hook *)

\* C23: a create or update of a cluster whose objects decode is refused with 400 if
\* and only if one of the URLs of its clientConfigs is not a parseable https URL,
\* whatever the authorizer would answer: no review is created before the refusal.
\* Hence every cluster the hook admits has https URLs only.
C23_OnlyHTTPSURLs ==
    (/\ validation.phase = "response"
     /\ validation.request.resource = "managedclusters"
     /\ validation.request.operation \in {"CREATE", "UPDATE"}
     /\ validation.request.objectDecodes /\ validation.request.oldDecodes) =>
        LET bad == {u \in validation.request.urls : ~(u.parses /\ u.scheme = "https")}
        IN  /\ validation.resp.code = StatusBadRequest <=> bad /= {}
            /\ bad /= {} => (~validation.resp.allowed /\ validation.sars = <<>>)
            /\ validation.resp.allowed => bad = {}

\* An accepted cluster with an http URL, sent by a user who may do everything
C23_Witness ==
    /\ validation.phase = "response"
    /\ validation.request.operation = "CREATE"
    /\ validation.request.hubAcceptsClient
    /\ validation.request.labels /= {}
    /\ validation.authorizer = [accept |-> "allowed", allowed |-> LabelReviews]
    /\ validation.request.urls =
          {[parses |-> TRUE, scheme |-> "https"], [parses |-> TRUE, scheme |-> "http"]}
    /\ validation.resp.code = StatusBadRequest
    /\ validation.sars = <<>>

----------------------------------------------------------------------------
(* Properties of the mutating hook on ManagedClusterSets *)

\* C24: a create or update of a clusterset is refused with 500 when it comes with an
\* exclusiveLabel whose key is neither empty nor cluster.open-cluster-management.io/
\* clusterset, or whose value is neither empty nor the name of the clusterset;
\* otherwise it is admitted, and the patched object has the selectorType of the
\* request, ExclusiveLabel when that was empty, and the exclusiveLabel with the
\* clusterset key and the name of the clusterset as value.
C24_ClusterSetSelectorForced ==
    (admission.phase = "clusterset response" /\ admission.object.decodes) =>
        LET sent == admission.object.clusterSelector
            label == sent.exclusiveLabel
            badKey == label.set /\ label.key /= EmptyKey /\ label.key /= clusterSetLabel
            badValue == label.set /\ label.value /= "" /\ label.value /= admission.object.name
            patched == ApplyPatch(sent, admission.resp.patch)
        IN  IF badKey \/ badValue
            THEN ~admission.resp.allowed /\ admission.resp.code = StatusInternalServerError
            ELSE /\ admission.resp.allowed
                 /\ patched.selectorType =
                       (IF sent.selectorType = "" THEN "ExclusiveLabel" ELSE sent.selectorType)
                 /\ patched.exclusiveLabel =
                       ManagedClusterLabel(clusterSetLabel, admission.object.name)

\* A clusterset sent with an empty selector type and an exclusive label of empty key
\* and value: both are filled in
C24_Witness ==
    /\ admission.phase = "clusterset response" /\ admission.resp.allowed
    /\ admission.object.clusterSelector = ClusterSelector("", ManagedClusterLabel(EmptyKey, ""))
    /\ DOMAIN admission.resp.patch = {"selectorType", "exclusiveLabel"}

(***************************************************************************)
(* The addon lease controller of the agent, sync by sync                   *)
(***************************************************************************)

leaseDurationTimes == 5

AddOnLeaseControllerLeaseDurationSeconds == 60

\* The time after the last renewal within which an addon counts as available
gracePeriod == leaseDurationTimes * AddOnLeaseControllerLeaseDurationSeconds

\* The latest second at which a lease is renewed in the model
MaxRenewTime == 1

\* The seconds the clock of the controller shows: the renewal times, and the
\* seconds around the end of the grace period of each renewal time
ClockPoints ==
    (0 .. MaxRenewTime) \cup ((gracePeriod - 1) .. (gracePeriod + MaxRenewTime))

HealthCheckModes == {"Lease", "Customized"}

\* The Available condition of an addon: its status and its reason
Condition(status, reason) == [status |-> status, reason |-> reason]

\* An addon that has no Available condition
NoAvailable == Condition("", "")

ConditionLeaseUpdated == Condition("True", "ManagedClusterAddOnLeaseUpdated")

ConditionLeaseUpdateStopped == Condition("False", "ManagedClusterAddOnLeaseUpdateStopped")

ConditionLeaseNotFound == Condition("Unknown", "ManagedClusterAddOnLeaseNotFound")

\* The Available conditions an addon can carry: none, the three of the lease
\* controller, and one written by the manager of the addon
AddOnConditions ==
    {NoAvailable, ConditionLeaseUpdated, ConditionLeaseUpdateStopped,
     ConditionLeaseNotFound, Condition("True", "ManagerReportsAvailable")}

ManagedClusterAddOn(mode, available) ==
    [exists |-> TRUE, mode |-> mode, available |-> available]

\* No addon of the name is in the store
NoAddOn == [exists |-> FALSE, mode |-> "Lease", available |-> NoAvailable]

Lease(renewTime) == [st |-> "present", renewTime |-> renewTime]

NoLease == [st |-> "absent", renewTime |-> 0]

\* The lister has handed no copy to a sync
NothingSeen == [got |-> FALSE, addOn |-> NoAddOn]

\* now.Before(observedLease.Spec.RenewTime.Add(gracePeriod))
LeaseFreshOrJustExpired(atTime, observedLease) ==
    atTime <= observedLease.renewTime + gracePeriod

LeaseFresh(atTime, observedLease) ==
    atTime < observedLease.renewTime + gracePeriod

\* The condition the controller computes from a lease it has read
ObservedCondition(atTime, observedLease) ==
    IF LeaseFresh(atTime, observedLease)
    THEN ConditionLeaseUpdated
    ELSE ConditionLeaseUpdateStopped

\* meta.IsStatusConditionPresentAndEqual for the Available condition
IsStatusConditionPresentAndEqual(available, status) ==
    available /= NoAvailable /\ available.status = status

\* The outcome of a sync: the error it returns, the failure that struck, the
\* lease reads it made, the condition it computed, whether it issued a status
\* write, and the addon in the store afterwards
Outcome(err, failed, reads, condition, wrote, stored) ==
    [err |-> err, failed |-> failed, reads |-> reads, condition |-> condition,
     wrote |-> wrote, stored |-> stored]

\* helpers.UpdateManagedClusterAddOnStatus: reads the addon from the store, sets
\* the condition, and writes the status when that changed it
UpdateManagedClusterAddOnStatus(stored, condition, f) ==
    IF f = "update" THEN [err |-> "update", failed |-> "update", updated |-> FALSE, stored |-> stored]
    ELSE IF ~stored.exists THEN [err |-> "not found", failed |-> "", updated |-> FALSE, stored |-> stored]
    ELSE IF stored.available = condition THEN [err |-> "", failed |-> "", updated |-> FALSE, stored |-> stored]
    ELSE [err |-> "", failed |-> "", updated |-> TRUE,
          stored |-> [stored EXCEPT !.available = condition]]

\* The tail of syncAddOn: skip the write when the copy has the status already
writeCondition(seen, stored, reads, failed, condition, f) ==
    IF IsStatusConditionPresentAndEqual(seen.available, condition.status)
    THEN Outcome("", failed, reads, condition, FALSE, stored)
    ELSE LET u == UpdateManagedClusterAddOnStatus(stored, condition, f)
         IN  Outcome(u.err, IF failed = "" THEN u.failed ELSE failed, reads, condition, u.updated, u.stored)

\* addOnLeaseController.syncAddOn: seen is the copy of the lister, stored the
\* addon in the store, f the call that fails in this sync
syncAddOnLease(seen, stored, observedLease, observedHubLease, atTime, f) ==
    IF f = "get"
    THEN Outcome("get", "get", <<"lease">>, NoAvailable, FALSE, stored)
    ELSE IF observedLease.st = "absent"
    THEN IF f /= "hubGet" /\ observedHubLease.st = "present"
         THEN writeCondition(seen, stored, <<"lease", "hubLease">>, "",
                             ObservedCondition(atTime, observedHubLease), f)
         ELSE writeCondition(seen, stored, <<"lease", "hubLease">>,
                             IF f = "hubGet" THEN "hubGet" ELSE "",
                             ConditionLeaseNotFound, f)
    ELSE writeCondition(seen, stored, <<"lease">>, "", ObservedCondition(atTime, observedLease), f)

\* addOnLeaseController.sync without the check of the health check mode
syncLeaseAnyMode(seen, stored, observedLease, observedHubLease, atTime, f) ==
    IF f = "lister" THEN Outcome("lister", "lister", <<>>, NoAvailable, FALSE, stored)
    ELSE IF ~seen.exists THEN Outcome("", "", <<>>, NoAvailable, FALSE, stored)
    ELSE syncAddOnLease(seen, stored, observedLease, observedHubLease, atTime, f)

\* addOnLeaseController.sync
syncLease(seen, stored, observedLease, observedHubLease, atTime, f) ==
    IF f = "lister" THEN Outcome("lister", "lister", <<>>, NoAvailable, FALSE, stored)
    ELSE IF ~seen.exists THEN Outcome("", "", <<>>, NoAvailable, FALSE, stored)
    ELSE IF seen.mode = "Customized" THEN Outcome("", "", <<>>, NoAvailable, FALSE, stored)
    ELSE syncAddOnLease(seen, stored, observedLease, observedHubLease, atTime, f)

\* The calls of a sync that can fail
LeaseFailures == {"none", "lister", "get", "hubGet", "update"}

\* The step log of the part: the operation, and for a sync the copy it worked
\* on, the addon that was in the store, and the outcome
LeaseStep(op, seen, before, out) ==
    [op |-> op, seen |-> seen, before |-> before, out |-> out]

NoOutcome == Outcome("", "", <<>>, NoAvailable, FALSE, NoAddOn)

LeaseEnv(op) == LeaseStep(op, NoAddOn, NoAddOn, NoOutcome)

\* The lister hands a copy of the addon to the sync
LeaseListerGet ==
    /\ ~addOnSeen.got
    /\ addOnSeen' = [got |-> TRUE, addOn |-> addOn]
    /\ lstep' = LeaseEnv("get")
    /\ UNCHANGED <<addOn, lease, hubLease, leaseClock>>
    /\ UNCHANGED <<clusterVars, taintVars, csrVars, hookVars, regVars, nsVars, featVars, spokeVars>>

\* The sync works on the copy
LeaseSync ==
    /\ addOnSeen.got
    /\ \E f \in LeaseFailures :
         LET out == syncLease(addOnSeen.addOn, addOn, lease, hubLease, leaseClock, f)
         IN  /\ addOn' = out.stored
             /\ lstep' = LeaseStep("sync", addOnSeen.addOn, addOn, out)
    /\ addOnSeen' = NothingSeen
    /\ UNCHANGED <<lease, hubLease, leaseClock>>
    /\ UNCHANGED <<clusterVars, taintVars, csrVars, hookVars, regVars, nsVars, featVars, spokeVars>>

\* Another writer creates, changes or deletes the addon
AddOnWrite ==
    /\ \E a \in {NoAddOn} \cup {ManagedClusterAddOn(mo, c) : mo \in HealthCheckModes, c \in AddOnConditions} :
         /\ a /= addOn
         /\ addOn' = a
    /\ lstep' = LeaseEnv("addon")
    /\ UNCHANGED <<lease, hubLease, leaseClock, addOnSeen>>
    /\ UNCHANGED <<clusterVars, taintVars, csrVars, hookVars, regVars, nsVars, featVars, spokeVars>>

\* The addon renews its lease on the selected side, or the lease is deleted
LeaseWrite ==
    /\ \/ leaseClock <= MaxRenewTime /\ lease' = Lease(leaseClock)
       \/ lease.st = "present" /\ lease' = NoLease
    /\ lease' /= lease
    /\ lstep' = LeaseEnv("lease")
    /\ UNCHANGED <<addOn, hubLease, leaseClock, addOnSeen>>
    /\ UNCHANGED <<clusterVars, taintVars, csrVars, hookVars, regVars, nsVars, featVars, spokeVars>>

\* An addon of an old release renews its lease on the hub, or it is deleted
HubLeaseWrite ==
    /\ \/ leaseClock <= MaxRenewTime /\ hubLease' = Lease(leaseClock)
       \/ hubLease.st = "present" /\ hubLease' = NoLease
    /\ hubLease' /= hubLease
    /\ lstep' = LeaseEnv("hubLease")
    /\ UNCHANGED <<addOn, lease, leaseClock, addOnSeen>>
    /\ UNCHANGED <<clusterVars, taintVars, csrVars, hookVars, regVars, nsVars, featVars, spokeVars>>

\* Time passes
LeaseTick ==
    /\ \E t \in ClockPoints : t > leaseClock /\ leaseClock' = t
    /\ lstep' = LeaseEnv("tick")
    /\ UNCHANGED <<addOn, lease, hubLease, addOnSeen>>
    /\ UNCHANGED <<clusterVars, taintVars, csrVars, hookVars, regVars, nsVars, featVars, spokeVars>>

InitLease ==
    /\ addOn = NoAddOn /\ lease = NoLease /\ hubLease = NoLease
    /\ leaseClock = 0 /\ addOnSeen = NothingSeen /\ lstep = LeaseEnv("init")
    /\ NoClusterPart /\ NoTaintPart /\ NoCSRPart /\ NoHookPart /\ NoRegPart /\ NoNSPart /\ NoFeaturePart /\ NoSpokePart

NextLease ==
    LeaseListerGet \/ LeaseSync \/ AddOnWrite \/ LeaseWrite \/ HubLeaseWrite \/ LeaseTick

SpecLease == InitLease /\ [][NextLease]_vars

\* What a sync has done, read off the step log
LeaseSynced == lstep.op = "sync"

\* A sync that reached the lease reads of an addon in Lease mode
LeaseEvaluated ==
    /\ LeaseSynced /\ lstep.out.failed /= "lister"
    /\ lstep.seen.exists /\ lstep.seen.mode = "Lease"

\* C25: for an addon in Lease mode whose lease reads do not fail, the sync
\* reads the lease of the selected side and, only if that one is not found,
\* the lease on the hub; with L the lease it found, it computes Available
\* True if now < L.renewTime + 5 x 60 s, False with reason
\* ManagedClusterAddOnLeaseUpdateStopped if now >= L.renewTime + 5 x 60 s,
\* and Unknown with reason ManagedClusterAddOnLeaseNotFound if neither
\* lease exists.
C25_AvailableFromLease ==
    (LeaseEvaluated /\ lstep.out.failed \notin {"get", "hubGet"}) =>
        LET L == IF lease.st = "present" THEN lease ELSE hubLease
            computed == lstep.out.condition
        IN  /\ lstep.out.reads = (IF lease.st = "present" THEN <<"lease">> ELSE <<"lease", "hubLease">>)
            /\ IF L.st = "absent"
               THEN computed = Condition("Unknown", "ManagedClusterAddOnLeaseNotFound")
               ELSE IF leaseClock < L.renewTime + 5 * 60
               THEN computed.status = "True"
               ELSE computed = Condition("False", "ManagedClusterAddOnLeaseUpdateStopped")

\* A sync fell back to the hub lease at the very second its grace period ended
C25_Witness ==
    /\ LeaseEvaluated /\ lstep.out.failed = ""
    /\ lease.st = "absent" /\ hubLease.st = "present"
    /\ leaseClock = hubLease.renewTime + 5 * 60
    /\ lstep.out.condition.status = "False" /\ lstep.out.wrote

\* C26: a sync that computed a condition and met no failure issues a status
\* write if and only if the Available condition of the addon differs from the
\* computed one in status or in reason; stated for a copy that equals the
\* addon in the store.
C26_WriteIffChanged ==
    (/\ LeaseEvaluated /\ lstep.out.failed = ""
     /\ lstep.before.exists /\ lstep.seen = lstep.before) =>
        (lstep.out.wrote <=>
            \/ lstep.before.available.status /= lstep.out.condition.status
            \/ lstep.before.available.reason /= lstep.out.condition.reason)

\* C27: a lease read that fails with an error other than not-found, on the
\* selected side or on the hub, makes the sync return that error and write
\* no condition; Unknown is computed only when both leases are absent.
C27_ReadErrorIsReturned ==
    LeaseEvaluated =>
        /\ lstep.out.failed \in {"get", "hubGet"} =>
              /\ lstep.out.err = lstep.out.failed
              /\ ~lstep.out.wrote /\ addOn = lstep.before
        /\ lstep.out.wrote /\ lstep.out.condition.status = "Unknown" =>
              lstep.out.failed = "" /\ lease.st = "absent" /\ hubLease.st = "absent"

\* C28: a sync whose copy of the addon has the health check mode Customized
\* reads no lease and writes no condition, whatever leases exist and whatever
\* Available condition the addon has.
C28_CustomizedIsLeftAlone ==
    (LeaseSynced /\ lstep.seen.exists /\ lstep.seen.mode = "Customized") =>
        /\ lstep.out.reads = <<>>
        /\ ~lstep.out.wrote /\ addOn = lstep.before
        /\ lstep.out.err \in {"", "lister"}

\* A Customized addon was synced while its lease had expired and its
\* Available condition said otherwise
C28_Witness ==
    /\ LeaseSynced /\ lstep.seen.exists /\ lstep.seen.mode = "Customized"
    /\ lstep.out.err = "" /\ lstep.seen = lstep.before
    /\ lease.st = "present" /\ leaseClock >= lease.renewTime + 5 * 60
    /\ addOn.available.status = "True"

(***************************************************************************)
(* The addon management controller of the agent and its managers           *)
(***************************************************************************)

\* The hashes of the registration configs an addon can declare
Hashes == {"h1", "h2"}

leaseLocationManagementCluster == "ManagementCluster"

leaseLocationManagedCluster == "ManagedCluster"

\* The addon on the hub: whether its agent runs outside the managed cluster,
\* and the hashes of the registration configs it declares
HubAddOn(outside, hashes) == [exists |-> TRUE, outside |-> outside, hashes |-> hashes]

NoHubAddOn == [exists |-> FALSE, outside |-> FALSE, hashes |-> {}]

HubAddOns == {NoHubAddOn} \cup {HubAddOn(o, hs) : o \in BOOLEAN, hs \in SUBSET Hashes}

\* A registrationConfig of the map: outside is
\* addOnAgentRunningOutsideManagedCluster, running tells whether the rotator
\* behind its stopFunc has been started and not cancelled
registrationConfig(outside) == [cached |-> TRUE, outside |-> outside, running |-> TRUE]

\* The map has no config of the hash
NoRegistrationConfig == [cached |-> FALSE, outside |-> FALSE, running |-> FALSE]

NoRegistrationConfigs == [h \in Hashes |-> NoRegistrationConfig]

\* getRegistrationConfigs: the configs of the addon by hash; their stopFunc
\* is set when they are started
getRegistrationConfigs(mca) ==
    [h \in Hashes |-> IF h \in mca.hashes
                      THEN registrationConfig(mca.outside)
                      ELSE NoRegistrationConfig]

\* The secret of a config: the plane of the client that writes and deletes
\* it, and the secret name, which stands for namespace and name
SecretOf(config, h) ==
    <<IF config.outside THEN "management" ELSE "managed", h>>

\* stopRegistration on each config of hs: config.stopFunc()
Stopped(configs, hs) ==
    [h \in Hashes |-> IF h \in hs THEN [configs[h] EXCEPT !.running = FALSE] ELSE configs[h]]

\* stopRegistration on each config of hs: the secrets whose Delete went
\* through; the Delete of the secret of hash f fails
DeletedSecrets(configs, hs, f) ==
    {SecretOf(configs[h], h) : h \in hs \ {f}}

\* The rotators that run and whose config a call dropped from the map
Leaked(before, after) ==
    Cardinality({h \in Hashes : before[h].cached /\ before[h].running /\ ~after[h].cached})

\* What a call of the registration manager did
RegResult(err, configs, leaked, secs, started, cancelled, deleted) ==
    [err |-> err, configs |-> configs, leaked |-> leaked, secrets |-> secs,
     started |-> started, cancelled |-> cancelled, deleted |-> deleted,
     failedDeletes |-> {h \in cancelled : ~\E sec \in deleted : sec[2] = h}]

\* addOnRegistrationManager.RunControllers without the stop of stale configs
registrationRunControllersKeepStale(cachedConfigs, leaked, secs, mca, f) ==
    IF f = "configs"
    THEN RegResult(TRUE, cachedConfigs, leaked, secs, {}, {}, {})
    ELSE LET configs == getRegistrationConfigs(mca)
             syncedConfigs ==
                 [h \in Hashes |->
                     IF ~configs[h].cached THEN NoRegistrationConfig
                     ELSE IF cachedConfigs[h].cached THEN cachedConfigs[h]
                     ELSE configs[h]]
             new == {h \in Hashes : configs[h].cached /\ ~cachedConfigs[h].cached}
         IN  RegResult(FALSE, syncedConfigs, leaked + Leaked(cachedConfigs, syncedConfigs),
                       secs, new, {}, {})

\* addOnRegistrationManager.RunControllers going on after a failed stop
registrationRunControllersIgnoreErrors(cachedConfigs, leaked, secs, mca, f) ==
    IF f = "configs"
    THEN RegResult(TRUE, cachedConfigs, leaked, secs, {}, {}, {})
    ELSE LET configs == getRegistrationConfigs(mca)
             stale == {h \in Hashes : cachedConfigs[h].cached /\ ~configs[h].cached}
             stopped == Stopped(cachedConfigs, stale)
             deleted == DeletedSecrets(cachedConfigs, stale, f)
             syncedConfigs ==
                 [h \in Hashes |->
                     IF ~configs[h].cached THEN NoRegistrationConfig
                     ELSE IF cachedConfigs[h].cached THEN cachedConfigs[h]
                     ELSE configs[h]]
             new == {h \in Hashes : configs[h].cached /\ ~cachedConfigs[h].cached}
         IN  RegResult(FALSE, syncedConfigs, leaked + Leaked(stopped, syncedConfigs),
                       secs \ deleted, new, stale, deleted)

\* addOnRegistrationManager.RunControllers
registrationRunControllers(cachedConfigs, leaked, secs, mca, f) ==
    IF f = "configs"
    THEN RegResult(TRUE, cachedConfigs, leaked, secs, {}, {}, {})
    ELSE LET configs == getRegistrationConfigs(mca)
             stale == {h \in Hashes : cachedConfigs[h].cached /\ ~configs[h].cached}
             stopped == Stopped(cachedConfigs, stale)
             deleted == DeletedSecrets(cachedConfigs, stale, f)
             syncedConfigs ==
                 [h \in Hashes |->
                     IF ~configs[h].cached THEN NoRegistrationConfig
                     ELSE IF cachedConfigs[h].cached THEN cachedConfigs[h]
                     ELSE configs[h]]
             new == {h \in Hashes : configs[h].cached /\ ~cachedConfigs[h].cached}
         IN  IF f \in stale
             THEN RegResult(TRUE, stopped, leaked, secs \ deleted, {}, stale, deleted)
             ELSE RegResult(FALSE, syncedConfigs, leaked + Leaked(stopped, syncedConfigs),
                            secs \ deleted, new, stale, deleted)

\* addOnRegistrationManager.StopControllers
registrationStopControllers(cachedConfigs, leaked, secs, f) ==
    LET all == {h \in Hashes : cachedConfigs[h].cached}
        stopped == Stopped(cachedConfigs, all)
        deleted == DeletedSecrets(cachedConfigs, all, f)
    IN  IF f \in all
        THEN RegResult(TRUE, stopped, leaked, secs \ deleted, {}, all, deleted)
        ELSE RegResult(FALSE, NoRegistrationConfigs, leaked + Leaked(stopped, NoRegistrationConfigs),
                       secs \ deleted, {}, all, deleted)

\* A leaseConfig of the map: its location, and whether the lease controller
\* behind its stopFunc has been started and not cancelled
leaseConfig(location) ==
    [cached |-> TRUE, location |-> location, running |-> FALSE, client |-> ""]

\* The map has no leaseConfig of the addon: the zero value
NoLeaseConfig == [cached |-> FALSE, location |-> "", running |-> FALSE, client |-> ""]

getAddOnLeaseConfig(mca) ==
    leaseConfig(IF mca.outside THEN leaseLocationManagementCluster ELSE leaseLocationManagedCluster)

\* startAddOnLeaseController: the controller reads leases with the client
\* of the location, and config.stopFunc is set
startAddOnLeaseController(config) ==
    [config EXCEPT !.running = TRUE,
                   !.client = IF config.location = leaseLocationManagementCluster
                              THEN "management" ELSE "managed"]

\* What a call of the lease manager did, with its cancels and starts in order
LeaseResult(err, config, leaked, started, cancelled, events) ==
    [err |-> err, config |-> config, leaked |-> leaked, started |-> started,
     cancelled |-> cancelled, events |-> events]

\* addOnLeaseControllerManager.StopControllers
leaseStopControllers(cachedConfig, leaked) ==
    IF ~cachedConfig.cached
    THEN LeaseResult(FALSE, cachedConfig, leaked, FALSE, FALSE, <<>>)
    ELSE LeaseResult(FALSE, NoLeaseConfig, leaked, FALSE, cachedConfig.running,
                     IF cachedConfig.running THEN <<"cancel">> ELSE <<>>)

\* addOnLeaseControllerManager.RunControllers without the call of StopControllers
leaseRunControllersNoStop(cachedConfig, leaked, mca) ==
    LET config == getAddOnLeaseConfig(mca)
    IN  IF cachedConfig.location = config.location
        THEN LeaseResult(FALSE, cachedConfig, leaked, FALSE, FALSE, <<>>)
        ELSE LeaseResult(FALSE, startAddOnLeaseController(config),
                         leaked + (IF cachedConfig.running THEN 1 ELSE 0), TRUE, FALSE, <<"start">>)

\* addOnLeaseControllerManager.RunControllers
leaseRunControllers(cachedConfig, leaked, mca) ==
    LET config == getAddOnLeaseConfig(mca)
        stop == leaseStopControllers(cachedConfig, leaked)
    IN  IF cachedConfig.location = config.location
        THEN LeaseResult(FALSE, cachedConfig, leaked, FALSE, FALSE, <<>>)
        ELSE LeaseResult(FALSE, startAddOnLeaseController(config), stop.leaked, TRUE,
                         stop.cancelled, stop.events \o <<"start">>)

\* The managers of the management controller, in the order it calls them
addOnControllerManagers == <<"registration", "lease">>

\* What a sync of the management controller did: the managers it called,
\* those that returned an error, and what the two did
SyncResult(called, reg, ls) ==
    [called |-> called,
     errs |-> {name \in {"registration"} : reg.err} \cup {name \in {"lease"} : ls.err},
     reg |-> reg, lease |-> ls]

\* stopAddOnControllers returning at the first manager that fails
stopAddOnControllersUntilError(cachedConfigs, leaked, secs, cachedLease, leakedLease, f) ==
    LET reg == registrationStopControllers(cachedConfigs, leaked, secs, f)
    IN  IF reg.err
        THEN SyncResult(<<"registration">>, reg, LeaseResult(FALSE, cachedLease, leakedLease, FALSE, FALSE, <<>>))
        ELSE SyncResult(addOnControllerManagers, reg, leaseStopControllers(cachedLease, leakedLease))

\* addOnManagementController.stopAddOnControllers
stopAddOnControllers(cachedConfigs, leaked, secs, cachedLease, leakedLease, f) ==
    SyncResult(addOnControllerManagers,
               registrationStopControllers(cachedConfigs, leaked, secs, f),
               leaseStopControllers(cachedLease, leakedLease))

\* addOnManagementController.syncAddOn after the lister Get
syncAddOn(seen, cachedConfigs, leaked, secs, cachedLease, leakedLease, f) ==
    IF ~seen.exists
    THEN stopAddOnControllers(cachedConfigs, leaked, secs, cachedLease, leakedLease, f)
    ELSE SyncResult(addOnControllerManagers,
                    registrationRunControllers(cachedConfigs, leaked, secs, seen, f),
                    leaseRunControllers(cachedLease, leakedLease, seen))

\* The calls of a sync that can fail: the lister, getRegistrationConfigs,
\* and the Delete of the secret of a hash
MgmtFailures == {"none", "lister", "configs"} \cup Hashes

\* The lister has handed no copy to a sync
NoAddOnSeen == [got |-> FALSE, addOn |-> NoHubAddOn]

\* The step log of the part: the operation, the copy of the addon, the maps
\* and the secrets before the step, and what the sync did
MgmtStep(op, seen, before, beforeLease, beforeSecrets, res) ==
    [op |-> op, addOn |-> seen, before |-> before, beforeLease |-> beforeLease,
     beforeSecrets |-> beforeSecrets, called |-> res.called, errs |-> res.errs,
     started |-> res.reg.started, cancelled |-> res.reg.cancelled, deleted |-> res.reg.deleted,
     leaseStarted |-> res.lease.started, leaseCancelled |-> res.lease.cancelled,
     leaseEvents |-> res.lease.events, failedDeletes |-> res.reg.failedDeletes]

NoSyncResult ==
    SyncResult(<<>>, RegResult(FALSE, NoRegistrationConfigs, 0, {}, {}, {}, {}),
               LeaseResult(FALSE, NoLeaseConfig, 0, FALSE, FALSE, <<>>))

MgmtEnv(op) == MgmtStep(op, NoHubAddOn, NoRegistrationConfigs, NoLeaseConfig, {}, NoSyncResult)

\* The lister hands a copy of the addon to the sync
MgmtListerGet ==
    /\ ~mgmtSeen.got
    /\ mgmtSeen' = [got |-> TRUE, addOn |-> hubAddOn]
    /\ rstep' = MgmtEnv("get")
    /\ UNCHANGED <<hubAddOn, addOnRegistrationConfigs, leakedRotators, secrets,
                   addOnLeaseConfigs, leakedLeaseControllers, regFailed>>
    /\ UNCHANGED <<clusterVars, taintVars, csrVars, hookVars, leaseVars, nsVars, featVars, spokeVars>>

\* The sync works on the copy
MgmtSync ==
    /\ mgmtSeen.got
    /\ \E f \in MgmtFailures :
         IF f = "lister"
         THEN /\ rstep' = MgmtEnv("failed")
              /\ UNCHANGED <<addOnRegistrationConfigs, leakedRotators, secrets,
                             addOnLeaseConfigs, leakedLeaseControllers, regFailed>>
         ELSE LET res == syncAddOn(mgmtSeen.addOn, addOnRegistrationConfigs, leakedRotators,
                                   secrets, addOnLeaseConfigs, leakedLeaseControllers, f)
              IN  /\ addOnRegistrationConfigs' = res.reg.configs
                  /\ leakedRotators' = res.reg.leaked
                  /\ secrets' = res.reg.secrets
                  /\ addOnLeaseConfigs' = res.lease.config
                  /\ leakedLeaseControllers' = res.lease.leaked
                  /\ regFailed' = (regFailed \/ res.reg.err)
                  /\ rstep' = MgmtStep(IF mgmtSeen.addOn.exists THEN "run" ELSE "stop",
                                       mgmtSeen.addOn, addOnRegistrationConfigs,
                                       addOnLeaseConfigs, secrets, res)
    /\ mgmtSeen' = NoAddOnSeen
    /\ UNCHANGED hubAddOn
    /\ UNCHANGED <<clusterVars, taintVars, csrVars, hookVars, leaseVars, nsVars, featVars, spokeVars>>

\* The addon is created, changed or deleted on the hub
HubAddOnWrite ==
    /\ \E a \in HubAddOns : a /= hubAddOn /\ hubAddOn' = a
    /\ rstep' = MgmtEnv("addon")
    /\ UNCHANGED <<addOnRegistrationConfigs, leakedRotators, secrets, addOnLeaseConfigs,
                   leakedLeaseControllers, mgmtSeen, regFailed>>
    /\ UNCHANGED <<clusterVars, taintVars, csrVars, hookVars, leaseVars, nsVars, featVars, spokeVars>>

\* A running rotator writes its secret
RotatorWritesSecret ==
    /\ \E h \in Hashes :
         /\ addOnRegistrationConfigs[h].cached /\ addOnRegistrationConfigs[h].running
         /\ SecretOf(addOnRegistrationConfigs[h], h) \notin secrets
         /\ secrets' = secrets \cup {SecretOf(addOnRegistrationConfigs[h], h)}
    /\ rstep' = MgmtEnv("secret")
    /\ UNCHANGED <<hubAddOn, addOnRegistrationConfigs, leakedRotators, addOnLeaseConfigs,
                   leakedLeaseControllers, mgmtSeen, regFailed>>
    /\ UNCHANGED <<clusterVars, taintVars, csrVars, hookVars, leaseVars, nsVars, featVars, spokeVars>>

InitManagement ==
    /\ hubAddOn = NoHubAddOn /\ addOnRegistrationConfigs = NoRegistrationConfigs
    /\ leakedRotators = 0 /\ secrets = {} /\ addOnLeaseConfigs = NoLeaseConfig
    /\ leakedLeaseControllers = 0 /\ mgmtSeen = NoAddOnSeen /\ regFailed = FALSE
    /\ rstep = MgmtEnv("init")
    /\ NoClusterPart /\ NoTaintPart /\ NoCSRPart /\ NoHookPart /\ NoLeasePart /\ NoNSPart /\ NoFeaturePart /\ NoSpokePart

NextManagement == MgmtListerGet \/ MgmtSync \/ HubAddOnWrite \/ RotatorWritesSecret

SpecManagement == InitManagement /\ [][NextManagement]_vars

\* The hashes whose rotator runs, and those the map holds
RunningRotators ==
    {h \in Hashes : addOnRegistrationConfigs[h].cached /\ addOnRegistrationConfigs[h].running}

CachedHashes == {h \in Hashes : addOnRegistrationConfigs[h].cached}

\* C29: as long as every call of the registration manager has succeeded,
\* after a RunControllers or StopControllers call the running rotators of
\* the addon are those of the hashes of the configs synced last (none after
\* StopControllers): a rotator whose hash persists is the one that ran
\* before, neither cancelled nor started again; every new hash has a rotator
\* started in this call; every hash no longer present had its rotator
\* cancelled and its secret deleted on the plane of that rotator.
C29_RotatorsFollowConfigs ==
    (~regFailed /\ rstep.op \in {"run", "stop"}) =>
        LET synced == IF rstep.op = "run" THEN rstep.addOn.hashes ELSE {}
            before == {h \in Hashes : rstep.before[h].cached /\ rstep.before[h].running}
        IN  /\ RunningRotators = synced /\ CachedHashes = synced /\ leakedRotators = 0
            /\ rstep.started = synced \ before
            /\ rstep.cancelled = before \ synced
            /\ \A h \in before \cap synced : addOnRegistrationConfigs[h] = rstep.before[h]
            /\ \A h \in before \ synced :
                  /\ SecretOf(rstep.before[h], h) \in rstep.deleted
                  /\ SecretOf(rstep.before[h], h) \notin secrets

\* A sync kept one rotator and stopped another one, whose secret existed on
\* the plane the addon has left since
C29_Witness ==
    /\ ~regFailed /\ rstep.op = "run"
    /\ \E h \in rstep.addOn.hashes : rstep.before[h].running
    /\ \E h \in Hashes \ rstep.addOn.hashes :
          /\ rstep.before[h].running
          /\ rstep.before[h].outside /= rstep.addOn.outside
          /\ SecretOf(rstep.before[h], h) \in rstep.beforeSecrets

\* C30: a sync that finds the addon gone calls StopControllers on every
\* manager, whether or not one of them fails; after a pass without error no
\* rotator and no lease controller of the addon runs, a delete went out for
\* the secret of every rotator of the map on the plane of that rotator, and
\* neither manager's map holds the addon.
C30_DeletedAddOnIsStopped ==
    rstep.op = "stop" =>
        /\ rstep.called = <<"registration", "lease">>
        /\ rstep.errs = {} =>
              /\ RunningRotators = {} /\ leakedRotators = 0
              /\ ~addOnLeaseConfigs.running /\ leakedLeaseControllers = 0
              /\ \A h \in Hashes : rstep.before[h].cached =>
                    /\ SecretOf(rstep.before[h], h) \in rstep.deleted
                    /\ SecretOf(rstep.before[h], h) \notin secrets
              /\ CachedHashes = {} /\ ~addOnLeaseConfigs.cached

\* A pass succeeded after an earlier one had failed, stopping rotators with
\* secrets on both planes and the lease controller
C30_Witness ==
    /\ rstep.op = "stop" /\ rstep.errs = {} /\ regFailed
    /\ \E h1, h2 \in Hashes :
          /\ rstep.before[h1].cached /\ rstep.before[h1].outside
          /\ rstep.before[h2].cached /\ ~rstep.before[h2].outside
          /\ SecretOf(rstep.before[h1], h1) \in rstep.beforeSecrets
    /\ rstep.leaseCancelled

\* C31: the lease manager holds at most one lease controller that is not
\* cancelled, and that one reads leases with the client of its location;
\* after a sync of an existing addon the location is the one of the synced
\* addon; a sync that changes the location cancels the current controller
\* and then starts the replacement, and a sync with the location unchanged
\* cancels and starts nothing.
C31_OneLeaseControllerPerAddOn ==
    /\ leakedLeaseControllers = 0
    /\ addOnLeaseConfigs.cached <=> addOnLeaseConfigs.running
    /\ addOnLeaseConfigs.running =>
          addOnLeaseConfigs.client =
              (IF addOnLeaseConfigs.location = "ManagementCluster" THEN "management" ELSE "managed")
    /\ rstep.op = "run" =>
          LET side == IF rstep.addOn.outside THEN "management" ELSE "managed"
          IN  /\ addOnLeaseConfigs.running /\ addOnLeaseConfigs.client = side
              /\ rstep.leaseEvents =
                    (IF ~rstep.beforeLease.running THEN <<"start">>
                     ELSE IF rstep.beforeLease.client = side THEN <<>>
                     ELSE <<"cancel", "start">>)
              /\ rstep.leaseEvents = <<>> => addOnLeaseConfigs = rstep.beforeLease

\* A sync moved the lease controller to the management cluster
C31_Witness ==
    /\ rstep.op = "run" /\ rstep.leaseEvents = <<"cancel", "start">>
    /\ rstep.beforeLease.client = "managed" /\ addOnLeaseConfigs.client = "management"

\* Whether the map holds the same configs as before the step
RegistrationMapUnchanged ==
    \A h \in Hashes :
        /\ addOnRegistrationConfigs[h].cached = rstep.before[h].cached
        /\ addOnRegistrationConfigs[h].outside = rstep.before[h].outside

\* C37: a RunControllers or StopControllers call of the registration manager
\* in which the Delete of a secret fails returns an error, starts no rotator
\* and leaves the configs of the addon in the map as they were.
C37_FailedDeleteKeepsMap ==
    (rstep.op \in {"run", "stop"} /\ rstep.failedDeletes /= {}) =>
        /\ "registration" \in rstep.errs
        /\ rstep.started = {}
        /\ RegistrationMapUnchanged

\* The Delete of a stale config's secret failed while the addon declared a
\* new config
C37_Witness ==
    /\ rstep.op = "run" /\ rstep.failedDeletes /= {}
    /\ \E h \in rstep.addOn.hashes : ~rstep.before[h].cached

----------------------------------------------------------------------------
(* Properties of the two controllers of the ManagedCluster together *)

\* The deletion controller has just removed the cleanup finalizer
FinalizerRemoved ==
    cstep.op = "DeletionSync" /\ cstep.finPatch = "remove" /\ ~cstep.err

\* The cleanup finalizer of a deleted cluster is gone: the cluster is gone
\* too, or stays for another finalizer
AfterFinalizerRemoval ==
    ~cluster.exists \/ (cluster.deleting /\ ~HasFinalizer(cluster))

\* C34: from the step in which the deletion controller removes the cleanup
\* finalizer of a deleting cluster on, whatever copies the two controllers
\* act on, the per-cluster RBAC resources do not exist: they are absent when
\* the finalizer is removed, and no step creates them afterwards.
C34_NoRBACAfterFinalizerRemoval ==
    [][/\ FinalizerRemoved' => ~rbac'
       /\ (AfterFinalizerRemoval /\ ~rbac) => ~rbac']_vars

----------------------------------------------------------------------------
(* The frame of the taint controller *)

\* Whether a taint is none of the two the taint controller manages
NotManaged(t) ==
    ~(/\ t.effect = TaintEffectNoSelect
      /\ t.key \in {ManagedClusterTaintUnavailable, ManagedClusterTaintUnreachable})

\* C36: a sync of the taint controller leaves every taint other than
\* unreachable/NoSelect and unavailable/NoSelect in spec.taints, in place and
\* with its key, value, effect and timeAdded, and writes no other field of
\* the cluster; a sync on a current copy whose computed taints equal the
\* stored ones issues no patch; a cluster that is being deleted is not
\* patched.
C36_OnlyManagedTaintsChange ==
    [][tstep'.op = "TaintSync" =>
          /\ SelectSeq(tcluster'.taints, NotManaged) = SelectSeq(tcluster.taints, NotManaged)
          /\ tcluster'.life = tcluster.life /\ tcluster'.available = tcluster.available
          /\ tstep'.patched => tcluster'.taints /= tcluster.taints
          /\ (tSeen.fresh /\ SyncTaints(tcluster.available, tcluster.taints).taints = tcluster.taints)
                => tstep'.plan /= "patch"
          /\ tcluster.life /= "live" => (~tstep'.patched /\ tcluster' = tcluster)
      ]_vars

\* The controller has removed its taint from a cluster that is available
\* again and has kept the two taints of the client
C36_Witness ==
    /\ tstep.op = "TaintSync" /\ tstep.patched
    /\ tcluster.available = "True"
    /\ Len(tcluster.taints) = 2
    /\ NotManaged(tcluster.taints[1]) /\ NotManaged(tcluster.taints[2])

----------------------------------------------------------------------------
(* The addon namespace controller of the agent *)

addonInstallNamespaceAnnotationKey == "addon.open-cluster-management.io/namespace"

\* The cluster of the agent, another cluster, the addons and the install namespaces
ManagedClusterName == "cluster1"
OtherClusterName == "cluster2"
NSAddOnNames == {"addon1", "addon2"}
InstallNamespaces == {"test", "test1"}

\* A ManagedClusterAddOn in the namespace of a cluster
NSAddOn(clusterNS, deleting, installNamespace) ==
    [cluster |-> clusterNS, deleting |-> deleting, installNamespace |-> installNamespace]

AbsentAddOn == NSAddOn("absent", FALSE, "")

NSAddOns ==
    {AbsentAddOn} \cup {NSAddOn(c, d, i) : c \in {ManagedClusterName, OtherClusterName},
                                           d \in BOOLEAN, i \in InstallNamespaces}

\* A namespace is absent, has no annotations, has the annotation of the
\* controller with another value, or has it with the value "true"
NamespaceStates == {"absent", "plain", "false", "true"}

\* The controller as NewAddonNamespaceController builds it: the struct literal
\* sets kubeClient, addOnLister and recorder
NewAddonNamespaceController(managedClusterName) ==
    [managedClusterName |-> ""]

\* The controller as TestNamespaceController builds it
TestController(managedClusterName) ==
    [managedClusterName |-> managedClusterName]

\* addOnLister.ManagedClusterAddOns(namespace).Get(name)
NSListerGet(store, namespace, name) ==
    [found |-> store[name].cluster = namespace, addOn |-> store[name]]

\* addOnLister.ManagedClusterAddOns(namespace).List(labels.Everything()):
\* the empty namespace lists the addons of every namespace
NSListerList(store, namespace) ==
    {store[a] : a \in {b \in DOMAIN store :
        /\ store[b].cluster /= "absent"
        /\ namespace = "" \/ store[b].cluster = namespace}}

NSResult(err, nss, deleted) == [err |-> err, namespaces |-> nss, deleted |-> deleted]

\* The call of the kube client that fails in a sync
NSFailures == {"none", "get", "write", "delete"}

\* addonNamespaceController.sync
namespaceSync(ctrl, key, store, nss, f) ==
    LET got == NSListerGet(store, ctrl.managedClusterName, key)
        inst == got.addOn.installNamespace
        annotated == [nss EXCEPT ![inst] = "true"]
    IN  IF ~got.found THEN NSResult(FALSE, nss, "")
        ELSE IF f = "get" THEN NSResult(TRUE, nss, "")
        ELSE IF nss[inst] = "absent"
            THEN IF f = "write" THEN NSResult(TRUE, nss, "") ELSE NSResult(FALSE, annotated, "")
        ELSE IF nss[inst] /= "true" /\ f = "write" THEN NSResult(TRUE, nss, "")
        ELSE IF ~got.addOn.deleting THEN NSResult(FALSE, annotated, "")
        ELSE IF \E a \in NSListerList(store, ctrl.managedClusterName) :
                    a.installNamespace = inst /\ ~a.deleting
            THEN NSResult(FALSE, annotated, "")
        ELSE IF f = "delete" THEN NSResult(TRUE, annotated, "")
        ELSE NSResult(FALSE, [annotated EXCEPT ![inst] = "absent"], inst)

NSStep(op, key, err, deleted) == [op |-> op, key |-> key, err |-> err, deleted |-> deleted]

\* A sync of the controller for the queue key of an addon
NamespaceSync(key, f) ==
    /\ UNCHANGED <<clusterVars, taintVars, csrVars, hookVars, leaseVars, regVars, featVars, spokeVars>>
    /\ LET r == namespaceSync(nsController, key, addOnStore, namespaces, f)
       IN  /\ namespaces' = r.namespaces
           /\ nstep' = NSStep("sync", key, r.err, r.deleted)
    /\ UNCHANGED <<nsController, addOnStore>>

\* The hub creates, changes, marks for deletion or removes an addon
NSAddOnWrite ==
    /\ UNCHANGED <<clusterVars, taintVars, csrVars, hookVars, leaseVars, regVars, featVars, spokeVars>>
    /\ \E name \in NSAddOnNames, a \in NSAddOns :
          /\ a /= addOnStore[name]
          /\ addOnStore[name].deleting => (a = AbsentAddOn)
          /\ addOnStore' = [addOnStore EXCEPT ![name] = a]
    /\ nstep' = NSStep("addon", "", FALSE, "")
    /\ UNCHANGED <<nsController, namespaces>>

\* Someone else creates, annotates or deletes a namespace of the managed cluster
NamespaceWrite ==
    /\ UNCHANGED <<clusterVars, taintVars, csrVars, hookVars, leaseVars, regVars, featVars, spokeVars>>
    /\ \E n \in InstallNamespaces, st \in NamespaceStates :
          /\ st /= namespaces[n]
          /\ namespaces' = [namespaces EXCEPT ![n] = st]
    /\ nstep' = NSStep("namespace", "", FALSE, "")
    /\ UNCHANGED <<nsController, addOnStore>>

InitNamespace ==
    /\ nsController \in {NewAddonNamespaceController(ManagedClusterName), TestController(ManagedClusterName)}
    /\ addOnStore = [a \in NSAddOnNames |-> AbsentAddOn]
    /\ namespaces = [n \in InstallNamespaces |-> "absent"]
    /\ nstep = NSStep("init", "", FALSE, "")
    /\ NoClusterPart /\ NoTaintPart /\ NoCSRPart /\ NoHookPart /\ NoLeasePart /\ NoRegPart /\ NoFeaturePart /\ NoSpokePart

NextNamespace ==
    \/ \E key \in NSAddOnNames, f \in NSFailures : NamespaceSync(key, f)
    \/ NSAddOnWrite
    \/ NamespaceWrite

SpecNamespace == InitNamespace /\ [][NextNamespace]_vars

\* Whether another addon of the managed cluster that is not being deleted
\* has the install namespace of the addon
SharedInstallNamespace(name) ==
    \E other \in NSAddOnNames \ {name} :
        /\ addOnStore[other].cluster = ManagedClusterName
        /\ ~addOnStore[other].deleting
        /\ addOnStore[other].installNamespace = addOnStore[name].installNamespace

\* C39: a sync deletes the install namespace of its addon only when the addon
\* is being deleted and no other addon of the managed cluster that is not
\* being deleted has the same install namespace; a sync without error of an
\* addon that is not being deleted deletes nothing and leaves the install
\* namespace existing with the annotation set to "true".
C39_NamespaceFollowsAddOns ==
    nstep.op = "sync" =>
        LET a == addOnStore[nstep.key]
        IN  /\ nstep.deleted /= "" =>
                  /\ a.cluster = ManagedClusterName /\ a.deleting
                  /\ nstep.deleted = a.installNamespace
                  /\ ~SharedInstallNamespace(nstep.key)
            /\ (a.cluster = ManagedClusterName /\ ~a.deleting /\ ~nstep.err) =>
                  /\ nstep.deleted = ""
                  /\ namespaces[a.installNamespace] = "true"

----------------------------------------------------------------------------
(* The addon feature discovery controller of the hub *)

addOnFeaturePrefix == "feature.open-cluster-management.io/addon-"
addOnStatusAvailable == "available"
addOnStatusUnhealthy == "unhealthy"
addOnStatusUnreachable == "unreachable"

\* The addons of the cluster namespace and a label key of someone else.
\* A label key is the sequence of its parts, fmt.Sprintf("%s%s", ...) their
\* concatenation.
FeatAddOnNames == {"a1", "a2"}
AddOnLabelKey(name) == <<addOnFeaturePrefix>> \o <<name>>
OtherLabelKey == <<"vendor">>

\* A ManagedClusterAddOn: the status of its condition Available is "none"
\* when it has no such condition
FeatAddOn(exists, deleting, available) ==
    [exists |-> exists, deleting |-> deleting, available |-> available]

NoFeatAddOn == FeatAddOn(FALSE, FALSE, "none")

\* The first addon reports every status, the second is available
FeatAddOnStates(name) ==
    LET statuses == IF name = "a1" THEN {"none", "True", "False", "Unknown"} ELSE {"True"}
    IN  {NoFeatAddOn} \cup {FeatAddOn(TRUE, d, a) : d \in BOOLEAN, a \in statuses}

getAddOnLabelValue(a) ==
    CASE a.available = "none" -> addOnStatusUnreachable
      [] a.available = "True" -> addOnStatusAvailable
      [] a.available = "False" -> addOnStatusUnhealthy
      [] OTHER -> addOnStatusUnreachable

\* A map without the entry of a key, and with an entry set
DeleteKey(map, key) == [k \in DOMAIN map \ {key} |-> map[k]]
SetKey(map, key, value) == [k \in DOMAIN map \cup {key} |-> IF k = key THEN value ELSE map[k]]

\* The labels of the cached object when the sync returns: the sync works on
\* cluster.Labels itself unless that map is empty
LabelsInCache(cached, computed) ==
    IF DOMAIN cached = {} THEN cached ELSE computed

\* The labels syncCluster computes from those of the cached cluster
clusterLabels(cached, addOns) ==
    LET live == {a \in DOMAIN addOns : addOns[a].exists /\ ~addOns[a].deleting}
        newAddonLabels == {AddOnLabelKey(a) : a \in live}
        kept == {k \in DOMAIN cached : ~HasPrefix(k, <<addOnFeaturePrefix>>)}
    IN  [k \in kept \cup newAddonLabels |->
            IF k \in newAddonLabels THEN getAddOnLabelValue(addOns[k[2]]) ELSE cached[k]]

\* The labels syncAddOn computes from those of the cached cluster
addOnLabels(cached, addOns, name) ==
    IF ~addOns[name].exists \/ addOns[name].deleting
    THEN DeleteKey(cached, AddOnLabelKey(name))
    ELSE SetKey(cached, AddOnLabelKey(name), getAddOnLabelValue(addOns[name]))

\* addOnFeatureDiscoveryController.syncCluster, up to the patch
syncCluster(cached, addOns) ==
    LET computed == clusterLabels(cached, addOns)
    IN  [labels |-> computed, patch |-> computed /= cached,
         cacheLabels |-> LabelsInCache(cached, computed)]

\* addOnFeatureDiscoveryController.syncAddOn, up to the patch
featureSyncAddOn(cached, addOns, name) ==
    LET computed == addOnLabels(cached, addOns, name)
    IN  [labels |-> computed, patch |-> computed /= cached,
         cacheLabels |-> LabelsInCache(cached, computed)]

\* The JSON merge patch of metadata.labels: an empty map is sent as null and
\* removes the labels, a map sets its entries and leaves the others
MergePatch(stored, patch) ==
    IF DOMAIN patch = {} THEN patch
    ELSE [k \in DOMAIN stored \cup DOMAIN patch |-> IF k \in DOMAIN patch THEN patch[k] ELSE stored[k]]

FeatCluster(deleting, labels) == [deleting |-> deleting, labels |-> labels]

\* The cached object; current is whether its uid and resourceVersion are
\* those of the stored cluster
FeatCached(deleting, labels, current) ==
    [deleting |-> deleting, labels |-> labels, current |-> current]

FeatStep(op, err, patched, before, matched) ==
    [op |-> op, err |-> err, patched |-> patched, before |-> before, matched |-> matched]

FeatFailures == {"none", "patch"}

\* The end of both syncs: nothing for a deleting cluster, no patch when the
\* labels are not changed, else a patch with uid and resourceVersion as
\* preconditions
FeatureSync(op, r, f) ==
    /\ UNCHANGED <<clusterVars, taintVars, csrVars, hookVars, agentVars, spokeVars>>
    /\ UNCHANGED featAddOns
    /\ LET matched == featCache.current /\ featCache.labels = featCluster.labels
       IN  IF featCache.deleting
           THEN /\ UNCHANGED <<featCluster, featCache>>
                /\ fstep' = FeatStep(op, FALSE, FALSE, featCluster.labels, matched)
           ELSE IF ~r.patch
           THEN /\ UNCHANGED featCluster
                /\ featCache' = [featCache EXCEPT !.labels = r.cacheLabels]
                /\ fstep' = FeatStep(op, FALSE, FALSE, featCluster.labels, matched)
           ELSE IF f = "patch" \/ ~featCache.current
           THEN /\ UNCHANGED featCluster
                /\ featCache' = [featCache EXCEPT !.labels = r.cacheLabels]
                /\ fstep' = FeatStep(op, TRUE, FALSE, featCluster.labels, matched)
           ELSE LET new == MergePatch(featCluster.labels, r.labels)
                IN  /\ featCluster' = [featCluster EXCEPT !.labels = new]
                    /\ featCache' = [featCache EXCEPT !.labels = r.cacheLabels,
                                                      !.current = (new = featCluster.labels)]
                    /\ fstep' = FeatStep(op, FALSE, TRUE, featCluster.labels, matched)

\* A sync for the queue key of the cluster
FeatureSyncCluster(f) ==
    FeatureSync("syncCluster", syncCluster(featCache.labels, featAddOns), f)

\* A sync for the queue key of an addon
FeatureSyncAddOn(name, f) ==
    FeatureSync("syncAddOn", featureSyncAddOn(featCache.labels, featAddOns, name), f)

\* The informer puts the stored cluster into its cache
InformerDeliver ==
    /\ UNCHANGED <<clusterVars, taintVars, csrVars, hookVars, agentVars, spokeVars>>
    /\ ~featCache.current
    /\ featCache' = FeatCached(featCluster.deleting, featCluster.labels, TRUE)
    /\ fstep' = FeatStep("informer", FALSE, FALSE, featCluster.labels, TRUE)
    /\ UNCHANGED <<featCluster, featAddOns>>

\* An addon of the cluster is created, reports, is marked for deletion or goes
FeatAddOnWrite ==
    /\ UNCHANGED <<clusterVars, taintVars, csrVars, hookVars, agentVars, spokeVars>>
    /\ \E name \in FeatAddOnNames : \E a \in FeatAddOnStates(name) :
          /\ a /= featAddOns[name]
          /\ featAddOns[name].deleting => ~a.exists
          /\ featAddOns' = [featAddOns EXCEPT ![name] = a]
    /\ fstep' = FeatStep("addon", FALSE, FALSE, featCluster.labels, FALSE)
    /\ UNCHANGED <<featCluster, featCache>>

\* Someone sets or removes the other label of the cluster, or deletes the cluster
FeatClusterWrite ==
    /\ UNCHANGED <<clusterVars, taintVars, csrVars, hookVars, agentVars, spokeVars>>
    /\ ~featCluster.deleting
    /\ \/ featCluster' = [featCluster EXCEPT !.deleting = TRUE]
       \/ /\ OtherLabelKey \in DOMAIN featCluster.labels
          /\ featCluster' = [featCluster EXCEPT !.labels = DeleteKey(@, OtherLabelKey)]
       \/ /\ OtherLabelKey \notin DOMAIN featCluster.labels
          /\ featCluster' = [featCluster EXCEPT !.labels = SetKey(@, OtherLabelKey, "x")]
    /\ featCache' = [featCache EXCEPT !.current = FALSE]
    /\ fstep' = FeatStep("cluster", FALSE, FALSE, featCluster.labels, FALSE)
    /\ UNCHANGED featAddOns

InitFeature ==
    /\ featCluster = FeatCluster(FALSE, <<>>)
    /\ featCache = FeatCached(FALSE, <<>>, TRUE)
    /\ featAddOns = [a \in FeatAddOnNames |-> NoFeatAddOn]
    /\ fstep = FeatStep("init", FALSE, FALSE, <<>>, TRUE)
    /\ NoClusterPart /\ NoTaintPart /\ NoCSRPart /\ NoHookPart /\ NoAgentPart /\ NoSpokePart

NextFeature ==
    \/ \E f \in FeatFailures : FeatureSyncCluster(f)
    \/ \E name \in FeatAddOnNames, f \in FeatFailures : FeatureSyncAddOn(name, f)
    \/ InformerDeliver
    \/ FeatAddOnWrite
    \/ FeatClusterWrite

SpecFeature == InitFeature /\ [][NextFeature]_vars

\* C35: a sync of the feature discovery controller leaves the labels of the
\* cluster object in the informer cache as they are.
C35_CacheLabelsUntouched ==
    [][fstep'.op \in {"syncCluster", "syncAddOn"} => featCache'.labels = featCache.labels]_vars


\* The addon labels a cluster is to have
FeatureLabels ==
    LET live == {a \in FeatAddOnNames : featAddOns[a].exists /\ ~featAddOns[a].deleting}
    IN  [k \in {AddOnLabelKey(a) : a \in live} |-> getAddOnLabelValue(featAddOns[k[2]])]

\* The entries of a map with the addon prefix, and the others
WithPrefix(map) == [k \in {j \in DOMAIN map : HasPrefix(j, <<addOnFeaturePrefix>>)} |-> map[k]]
WithoutPrefix(map) == [k \in {j \in DOMAIN map : ~HasPrefix(j, <<addOnFeaturePrefix>>)} |-> map[k]]

\* C40: after a cluster sync without error on a cluster that is not being
\* deleted, the sync having read the stored labels, the labels with the addon
\* prefix are one per addon that is not being deleted, with the value of its
\* condition Available, and the other labels are as they were.
C40_LabelsFollowAddOns ==
    (fstep.op = "syncCluster" /\ ~fstep.err /\ fstep.matched /\ ~featCluster.deleting) =>
        /\ WithPrefix(featCluster.labels) = FeatureLabels
        /\ WithoutPrefix(featCluster.labels) = WithoutPrefix(fstep.before)
----------------------------------------------------------------------------
(* Termination of the deletion *)

\* The deletion controller under fair scheduling: the queue hands every key it
\* holds to a sync, a key is added again after an error and after a requeue,
\* the calls of a sync do not fail for ever, and the resources of the
\* namespace move on.
SpecDeletionFair ==
    /\ InitDeletion /\ [][NextDeletion]_vars
    /\ WF_vars(DeletionGet)
    /\ SF_vars(DeletionSync("none"))
    /\ WF_vars(ResourceProgress)

----------------------------------------------------------------------------
(* The lease of the cluster, the condition Available and the taints *)

\* The agent: its lease on the hub is missing, fresh (renewed within the grace
\* period) or expired
Spoke(leaseState, renewing, joined) ==
    [lease |-> leaseState, renewing |-> renewing, joined |-> joined]

\* The agent that has joined renews its lease
SpokeRenews ==
    /\ spoke.joined /\ spoke.renewing /\ spoke.lease /= "fresh"
    /\ spoke' = [spoke EXCEPT !.lease = "fresh"]
    /\ tstep' = TaintStep("env")
    /\ UNCHANGED <<clusterVars, csrVars, hookVars, agentVars, featVars, tcluster, now, stamps, tSeen>>

\* The agent stops renewing its lease
SpokeStops ==
    /\ spoke.renewing /\ spoke.lease = "fresh"
    /\ spoke' = [spoke EXCEPT !.renewing = FALSE]
    /\ tstep' = TaintStep("env")
    /\ UNCHANGED <<clusterVars, csrVars, hookVars, agentVars, featVars, tcluster, now, stamps, tSeen>>

\* The grace period of a lease that is not renewed is over
LeaseExpires ==
    /\ ~spoke.renewing /\ spoke.lease = "fresh"
    /\ spoke' = [spoke EXCEPT !.lease = "expired"]
    /\ tstep' = TaintStep("env")
    /\ UNCHANGED <<clusterVars, csrVars, hookVars, agentVars, featVars, tcluster, now, stamps, tSeen>>

\* The condition Available the lease controller of the hub gives to a lease
EvaluateLease(leaseState, available) ==
    CASE leaseState = "fresh" -> "True"
      [] leaseState = "expired" -> "False"
      [] OTHER -> IF available = "none" THEN "Unknown" ELSE available

\* The lease controller of the hub evaluates the lease of the cluster
LeaseEvaluator ==
    /\ tcluster.life = "live"
    /\ EvaluateLease(spoke.lease, tcluster.available) /= tcluster.available
    /\ tcluster' = [tcluster EXCEPT !.available = EvaluateLease(spoke.lease, tcluster.available)]
    /\ tSeen' = Outdated(tSeen, tcluster)
    /\ tstep' = TaintStep("env")
    /\ UNCHANGED <<clusterVars, csrVars, hookVars, agentVars, featVars, spokeVars, now, stamps>>

\* Taints a cluster has in the store when clients have written it: none, a
\* taint of a client, the unreachable taint of the controller followed by a
\* client's taint with the same key and another effect
ClusterTaintsAtStart ==
    {<<>>,
     <<Taint("a", "v", TaintEffectNoSelect, 1)>>,
     <<[UnreachableTaint EXCEPT !.timeAdded = 1],
       Taint(ManagedClusterTaintUnreachable, "", TaintEffectPreferNoSelect, 1)>>}

\* A cluster without the condition Available whose agent has joined and
\* renews its lease
InitLeaseStop ==
    /\ \E stored \in ClusterTaintsAtStart :
          tcluster = [life |-> "live", available |-> "none", taints |-> stored]
    /\ now = TicksPerSec
    /\ stamps = {t.timeAdded : t \in {tcluster.taints[i] : i \in DOMAIN tcluster.taints}}
    /\ tSeen = Idle
    /\ tstep = TaintNoStep
    /\ spoke = Spoke("none", TRUE, TRUE)
    /\ NoClusterPart /\ NoCSRPart /\ NoHookPart /\ NoAgentPart /\ NoFeaturePart

NextLeaseStop ==
    \/ TaintGet
    \/ \E f \in TaintFailures : TaintSync(f)
    \/ Tick
    \/ SpokeRenews
    \/ SpokeStops
    \/ LeaseExpires
    \/ LeaseEvaluator

\* Fair scheduling: the lease controller and the taint controller take the
\* work they have, the calls of a sync do not fail for ever, the grace period
\* of a lease ends
LeaseStopFairness ==
    /\ WF_vars(TaintGet)
    /\ SF_vars(TaintSync("none"))
    /\ WF_vars(LeaseEvaluator)
    /\ WF_vars(LeaseExpires)
    /\ WF_vars(SpokeRenews)

SpecLeaseStopFair == InitLeaseStop /\ [][NextLeaseStop]_vars /\ LeaseStopFairness

\* The taint of the list with the key and the effect NoSelect has a time the
\* admission stamped
StampedTaint(key) ==
    \E i \in DOMAIN tcluster.taints :
        /\ tcluster.taints[i].key = key /\ tcluster.taints[i].effect = TaintEffectNoSelect
        /\ tcluster.taints[i].timeAdded \in stamps

\* The cluster is unavailable and tainted so
UnavailableAndTainted ==
    /\ tcluster.available = "False"
    /\ HasTaint(tcluster.taints, ManagedClusterTaintUnavailable, TaintEffectNoSelect)
    /\ ~HasTaint(tcluster.taints, ManagedClusterTaintUnreachable, TaintEffectNoSelect)
    /\ StampedTaint(ManagedClusterTaintUnavailable)

\* C33: a cluster with Available=True whose agent has stopped renewing its
\* lease eventually has Available=False and the taint unavailable/NoSelect
\* with a time the admission stamped, and no taint unreachable/NoSelect.
C33_LeaseStopTaints ==
    (tcluster.available = "True" /\ ~spoke.renewing) ~> UnavailableAndTainted

----------------------------------------------------------------------------
(* From the submission of a cluster to Joined and Available *)

\* The agent of an accepted cluster sets the condition Joined
AgentJoins ==
    /\ cluster.exists /\ cluster.accepted.status = "True" /\ ~spoke.joined
    /\ spoke' = [spoke EXCEPT !.joined = TRUE]
    /\ tstep' = TaintStep("env")
    /\ UNCHANGED <<clusterVars, csrVars, hookVars, agentVars, featVars, tcluster, now, stamps, tSeen>>

\* A cluster the agent has submitted, with the taints clients have given it
InitJoin ==
    /\ cluster = NewCluster
    /\ ns = Absent(OneId) /\ monitored = Absent(OneId) /\ addons = Absent(OneId)
    /\ works = [i \in WorkIds |-> Item("absent", i = "wl")]
    /\ rbac = FALSE
    /\ accSeen = Idle
    /\ delSeen = Idle
    /\ cstep = NoStep
    /\ \E stored \in ClusterTaintsAtStart :
          tcluster = [life |-> "live", available |-> "none", taints |-> stored]
    /\ now = TicksPerSec
    /\ stamps = {t.timeAdded : t \in {tcluster.taints[i] : i \in DOMAIN tcluster.taints}}
    /\ tSeen = Idle
    /\ tstep = TaintNoStep
    /\ spoke = Spoke("none", TRUE, FALSE)
    /\ NoCSRPart /\ NoHookPart /\ NoAgentPart /\ NoFeaturePart

NextJoin ==
    \/ DeletionGet
    \/ \E f \in DeletionFailures : DeletionSync(f)
    \/ AcceptanceGet
    \/ \E f \in AcceptanceFailures : AcceptanceSync(f)
    \/ AdminSetHubAccepts
    \/ TaintGet
    \/ \E f \in TaintFailures : TaintSync(f)
    \/ AgentJoins
    \/ SpokeRenews
    \/ SpokeStops
    \/ LeaseExpires
    \/ LeaseEvaluator

\* Fair scheduling of all controllers and of the agent
JoinFairness ==
    /\ WF_vars(DeletionGet)
    /\ SF_vars(DeletionSync("none"))
    /\ WF_vars(AcceptanceGet)
    /\ SF_vars(AcceptanceSync("none"))
    /\ WF_vars(TaintGet)
    /\ SF_vars(TaintSync("none"))
    /\ WF_vars(AgentJoins)
    /\ WF_vars(SpokeRenews)
    /\ WF_vars(LeaseExpires)
    /\ WF_vars(LeaseEvaluator)

SpecJoinFair == InitJoin /\ [][NextJoin]_vars /\ JoinFairness

\* The cluster is accepted, joined, available and without the two taints
JoinedAndAvailable ==
    /\ cluster.exists /\ cluster.accepted.status = "True"
    /\ spoke.joined
    /\ tcluster.available = "True"
    /\ ~HasTaint(tcluster.taints, ManagedClusterTaintUnreachable, TaintEffectNoSelect)
    /\ ~HasTaint(tcluster.taints, ManagedClusterTaintUnavailable, TaintEffectNoSelect)

\* C32: a cluster whose acceptance is not revoked from some time on and whose
\* agent keeps renewing its lease eventually is and stays accepted, joined and
\* available, without the taints unreachable/NoSelect and unavailable/NoSelect.
C32_JoinedAndAvailable ==
    <>[](cluster.hubAcceptsClient /\ spoke.renewing) => <>[]JoinedAndAvailable

====
